---- MODULE Spec2Model ----
(***************************************************************************)
(* Contract pipeline of aeo-contract-api.                                  *)
(*                                                                         *)
(* The repository holds two revisions of the /api/generate-and-send        *)
(* handler (both in src/unnamed/part_000):                                 *)
(*   rev = "link"  lines 1-1062:   signing link, one-time or recurring     *)
(*                                 Stripe billing, no ClickUp call;        *)
(*   rev = "task"  lines 1064-1908: no signing link, one-time Stripe       *)
(*                                 invoice, ClickUp task.                  *)
(* and the /api/slack-contract bridge (src/unnamed/part_001 lines 213-524) *)
(* which validates a form, calls the pipeline over HTTP and posts the      *)
(* outcome to Slack.                                                       *)
(*                                                                         *)
(* The chat adapters are modelled on their own: the endpoint an adapter    *)
(* calls is a separate function invocation, and its answer is an input.    *)
(*   /api/slack-command   src/api/debug.js lines 9-217: opens the modal;   *)
(*   /api/slack-interact  four variants of the modal-submission handler:   *)
(*     "fire"    src/api/slack-interact.js 1-156: hands off, then responds *)
(*     "inproc"  src/api/slack-interact.js 158-445: responds, then calls   *)
(*               the pipeline itself and posts the outcome                 *)
(*     "bridge"  src/unnamed/part_002: responds, then awaits the bridge    *)
(*     "handoff" src/unnamed/part_003: responds, then hands off            *)
(*                                                                         *)
(* Text is a sequence of one-character strings so that toLowerCase, trim,  *)
(* replace, truthiness and number parsing are computed, not assumed.       *)
(* The code between two awaits is one atomic step: an action handles the   *)
(* response (or transport error) of the request in flight and runs the     *)
(* handler up to the next request it issues, or to its response.           *)
(***************************************************************************)
EXTENDS Integers, Sequences, FiniteSets, TLC

VARIABLES
  rev,      \* which revision of the pipeline handler is deployed
  env,      \* process.env: which secrets are configured
  entry,    \* endpoint the outside caller hit
  req,      \* request of the pipeline invocation (NoReq when none)
  pc,       \* position of the pipeline handler
  loc,      \* local variables of the pipeline handler
  calls,    \* external requests issued by the pipeline invocation, in order
  res,      \* HTTP response of the pipeline invocation
  last,     \* the response the pipeline handler handled last, and how it came out
  sreq,     \* request of the slack-contract invocation
  spc,      \* position of the slack-contract handler
  sloc,     \* local variables of the slack-contract handler
  scalls,   \* outbound requests issued by the slack-contract invocation
  sres,     \* HTTP response of the slack-contract invocation
  variant,  \* which variant of the slack-interact handler is deployed
  ireq,     \* request of the slack-interact invocation
  ipc,      \* position of the slack-interact handler
  iloc,     \* local variables of the slack-interact handler
  icalls,   \* outbound requests issued by the slack-interact invocation
  ires,     \* HTTP response of the slack-interact invocation
  creq,     \* request of the slack-command invocation
  cpc,      \* position of the slack-command handler
  ccalls,   \* outbound requests issued by the slack-command invocation
  cres,     \* HTTP response of the slack-command invocation
  other     \* a second pipeline invocation of the same process, suspended at an await

vars == <<rev, env, entry, req, pc, loc, calls, res, last, sreq, spc, sloc, scalls, sres,
          variant, ireq, ipc, iloc, icalls, ires, creq, cpc, ccalls, cres, other>>
pvars == <<req, pc, loc, calls, res, last>>
svars == <<sreq, spc, sloc, scalls, sres>>
ivars == <<variant, ireq, ipc, iloc, icalls, ires>>
cvars == <<creq, cpc, ccalls, cres>>

----------------------------------------------------------------------------
(* Bounds                                                                  *)

\* how many components of a scenario (request fields, method, header,
\* configured secrets) may differ from the reference submission
MaxEdits == 1

\* largest page count a document-metadata response reports
MaxPages == 2

----------------------------------------------------------------------------
(* Text                                                                    *)

Whitespace == {" ", "\t"}

UpperCase == <<"A", "B", "C", "D", "E", "F", "G", "H", "I", "J", "K", "L", "M",
               "N", "O", "P", "Q", "R", "S", "T", "U", "V", "W", "X", "Y", "Z">>
LowerCase == <<"a", "b", "c", "d", "e", "f", "g", "h", "i", "j", "k", "l", "m",
               "n", "o", "p", "q", "r", "s", "t", "u", "v", "w", "x", "y", "z">>

\* String.prototype.toLowerCase on one character
LowerChar(c) ==
  IF \E k \in 1..26 : UpperCase[k] = c
  THEN LowerCase[CHOOSE k \in 1..26 : UpperCase[k] = c]
  ELSE c

\* String.prototype.toLowerCase
ToLowerCase(s) == [i \in 1..Len(s) |-> LowerChar(s[i])]

RECURSIVE TrimStart(_)
TrimStart(s) ==
  IF s # <<>> /\ Head(s) \in Whitespace THEN TrimStart(Tail(s)) ELSE s

RECURSIVE TrimEnd(_)
TrimEnd(s) ==
  IF s # <<>> /\ s[Len(s)] \in Whitespace
  THEN TrimEnd(SubSeq(s, 1, Len(s) - 1))
  ELSE s

\* String.prototype.trim
Trim(s) == TrimEnd(TrimStart(s))

\* StripCurrency with a pattern that knows only the currency sign
StripCurrency_KeepsComma(s) == SelectSeq(s, LAMBDA c : c # "$")

\* s.replace(/[,$]/g, "")
StripCurrency(s) == SelectSeq(s, LAMBDA c : c \notin {",", "$"})

\* s.replace(/[$,\s]/g, "")
StripCurrencySpace(s) == SelectSeq(s, LAMBDA c : c \notin ({",", "$"} \cup Whitespace))

Digits == <<"0", "1", "2", "3", "4", "5", "6", "7", "8", "9">>
IsDigit(c) == \E d \in 1..10 : Digits[d] = c
DigitVal(c) == (CHOOSE d \in 1..10 : Digits[d] = c) - 1

\* value of a sequence of digits
RECURSIVE DigitsVal(_)
DigitsVal(s) ==
  IF s = <<>> THEN 0 ELSE 10 * DigitsVal(SubSeq(s, 1, Len(s) - 1)) + DigitVal(s[Len(s)])

\* decimal digits of a natural number
RECURSIVE NatToText(_)
NatToText(n) ==
  IF n < 10 THEN <<Digits[n + 1]>> ELSE NatToText(n \div 10) \o <<Digits[(n % 10) + 1]>>

\* A JS number restricted to what the inputs can produce: NaN, or a
\* non-negative decimal with its whole part (val) and its hundredths (frac).
NaN == [nan |-> TRUE, val |-> 0, frac |-> 0]
Nat2Num(n) == [nan |-> FALSE, val |-> n, frac |-> 0]
Dec2Num(n, h) == [nan |-> FALSE, val |-> n, frac |-> h]

\* x > 0
Positive(x) == ~x.nan /\ (x.val > 0 \/ x.frac > 0)

\* the hundredths a sequence of fraction digits denotes; the inputs carry at
\* most two decimals
Hundredths(d) ==
  IF d = <<>> THEN 0
  ELSE IF Len(d) = 1 THEN 10 * DigitVal(d[1])
  ELSE 10 * DigitVal(d[1]) + DigitVal(d[2])

\* Number(text): whitespace is trimmed, "" is 0, a digit string is its
\* value, digits around one decimal point are a decimal, anything else over
\* the alphabet used here is NaN
ToNumber(s) ==
  LET t == Trim(s)
      dots == {i \in 1..Len(t) : t[i] = "."}
  IN
    IF \A i \in 1..Len(t) : IsDigit(t[i]) THEN Nat2Num(DigitsVal(t))
    ELSE IF Cardinality(dots) = 1 /\ Len(t) > 1
              /\ \A i \in 1..Len(t) : IsDigit(t[i]) \/ i \in dots
      THEN LET k == CHOOSE i \in dots : TRUE IN
             Dec2Num(DigitsVal(SubSeq(t, 1, k - 1)), Hundredths(SubSeq(t, k + 1, Len(t))))
      ELSE NaN

RECURSIVE DigitPrefix(_)
DigitPrefix(s) ==
  IF s # <<>> /\ IsDigit(Head(s)) THEN <<Head(s)>> \o DigitPrefix(Tail(s)) ELSE <<>>

\* parseFloat(text): leading whitespace skipped, longest numeric prefix
\* (digits, then a decimal point and digits), NaN when there is none
ParseFloat(s) ==
  LET t == TrimStart(s)
      p == DigitPrefix(t)
      rest == SubSeq(t, Len(p) + 1, Len(t))
      q == IF rest # <<>> /\ Head(rest) = "." THEN DigitPrefix(Tail(rest)) ELSE <<>>
  IN
    IF p = <<>> /\ q = <<>> THEN NaN ELSE Dec2Num(DigitsVal(p), Hundredths(q))

\* parseInt(text): leading whitespace skipped, the leading digits, NaN when
\* there is none
ParseInt(s) ==
  LET p == DigitPrefix(TrimStart(s)) IN
    IF p = <<>> THEN NaN ELSE Nat2Num(DigitsVal(p))

\* en-US grouping of a digit string: a comma before every group of three
RECURSIVE GroupThousands(_)
GroupThousands(d) ==
  IF Len(d) <= 3 THEN d
  ELSE GroupThousands(SubSeq(d, 1, Len(d) - 3)) \o <<",">> \o SubSeq(d, Len(d) - 2, Len(d))

\* Number.prototype.toLocaleString("en-US")
ToLocaleString(x) ==
  IF x.nan THEN <<"N", "a", "N">>
  ELSE GroupThousands(NatToText(x.val))
         \o (IF x.frac = 0 THEN <<>>
             ELSE IF x.frac % 10 = 0 THEN <<".", Digits[(x.frac \div 10) + 1]>>
             ELSE <<".", Digits[(x.frac \div 10) + 1], Digits[(x.frac % 10) + 1]>>)

----------------------------------------------------------------------------
(* JS values of a JSON body field                                          *)

Undefined == [t |-> "undefined", s |-> <<>>, n |-> 0]
Str(s) == [t |-> "string", s |-> s, n |-> 0]
Num(n) == [t |-> "number", s |-> <<>>, n |-> n]

\* ToBoolean(v), as used by !v and v || w
Truthy(v) ==
  CASE v.t = "undefined" -> FALSE
    [] v.t = "string" -> v.s # <<>>
    [] v.t = "number" -> v.n # 0

\* String(v)
ToText(v) ==
  CASE v.t = "undefined" -> <<"u", "n", "d", "e", "f", "i", "n", "e", "d">>
    [] v.t = "string" -> v.s
    [] v.t = "number" -> NatToText(v.n)

\* a || b
OrElse(a, b) == IF Truthy(a) THEN a ELSE b

----------------------------------------------------------------------------
(* Scenarios: the request that arrives and the configured secrets          *)

T_sprint1  == <<"s", "p", "r", "i", "n", "t", "1">>
T_Sprint_1 == <<"S", "p", "r", "i", "n", "t", " ", "1">>
T_phase2   == <<"p", "h", "a", "s", "e", "2">>
T_Phase_2  == <<"P", "h", "a", "s", "e", " ", "2">>
T_phase_2  == <<"p", "h", "a", "s", "e", " ", "2">>
T_p2       == <<"p", "2">>
T_P2_pad   == <<" ", "P", "2", " ">>
T_retainer == <<"r", "e", "t", "a", "i", "n", "e", "r">>
T_Acme     == <<"A", "c", "m", "e", " ", "C", "o", "r", "p">>
T_John     == <<"J", "o", "h", "n">>
T_Doe      == <<"D", "o", "e">>
T_CEO      == <<"C", "E", "O">>
T_email    == <<"j", "o", "h", "n", "@", "a", "c", "m", "e", ".", "c", "o", "m">>
T_bademail == <<"j", "o", "h", "n", ".", "a", "c", "m", "e">>
T_5000     == <<"5", "0", "0", "0">>
T_usd5000  == <<"$", "5", ",", "0", "0", "0">>
T_abc      == <<"a", "b", "c">>
T_zero     == <<"0">>
T_blank    == <<" ">>
T_audit    == <<"S", "E", "O", " ", "a", "u", "d", "i", "t">>
T_links    == <<"l", "i", "n", "k", "s">>

\* the required fields, in the order the pipeline checks them
Required ==
  <<"contract_type", "client_company", "client_first", "client_last",
    "client_title", "client_email", "amount">>

BodyFields == {Required[i] : i \in 1..Len(Required)} \cup {"scope", "deliverable"}

\* the values each component of a scenario is drawn from
Choices ==
  [ method         |-> {"POST", "OPTIONS", "GET"},
    authorization  |-> {"none", "match", "wrong"},
    has_body       |-> BOOLEAN,
    API_KEY        |-> BOOLEAN,
    STRIPE_SECRET_KEY |-> BOOLEAN,
    CLICKUP_API_TOKEN |-> BOOLEAN,
    SLACK_BOT_TOKEN   |-> BOOLEAN,
    contract_type  |-> {Undefined, Str(<<>>), Str(T_sprint1), Str(T_Sprint_1),
                        Str(T_phase2), Str(T_Phase_2), Str(T_phase_2), Str(T_p2),
                        Str(T_P2_pad), Str(T_retainer)},
    client_company |-> {Undefined, Str(<<>>), Str(T_blank), Str(T_Acme)},
    client_first   |-> {Undefined, Str(<<>>), Str(T_John)},
    client_last    |-> {Undefined, Str(<<>>), Str(T_Doe)},
    client_title   |-> {Undefined, Str(<<>>), Str(T_CEO)},
    client_email   |-> {Undefined, Str(<<>>), Str(T_email), Str(T_bademail)},
    amount         |-> {Undefined, Str(<<>>), Num(0), Num(5000), Str(T_5000),
                        Str(T_usd5000), Str(T_abc), Str(T_zero), Str(<<"$">>),
                        Str(<<"1", ",", "2", "5", "0", ",", "0", "0", "0">>),
                        Str(<<"5", "0", "0", "0", ".", "5", "0">>)},
    scope          |-> {Undefined, Str(<<>>), Str(T_blank), Str(T_links)},
    deliverable    |-> {Undefined, Str(T_audit)},
    payload        |-> {"none", "unparsable", "block_actions", "no_view",
                        "other_callback", "submission"},
    user           |-> BOOLEAN,
    trigger_id     |-> BOOLEAN ]

\* the components an endpoint reads: the pipeline takes no Slack token, the
\* bridge reads neither the Authorization header nor a deliverable, the
\* adapters read what Slack sends them
Components(e) ==
  CASE e = "generate-and-send" ->
         DOMAIN Choices \ {"SLACK_BOT_TOKEN", "payload", "user", "trigger_id"}
    [] e = "slack-contract" ->
         DOMAIN Choices \ {"authorization", "deliverable", "payload", "user", "trigger_id"}
    [] e = "slack-interact" ->
         DOMAIN Choices \ {"authorization", "has_body", "deliverable", "API_KEY",
                            "STRIPE_SECRET_KEY", "CLICKUP_API_TOKEN", "trigger_id"}
    [] e = "slack-command" ->
         {"method", "has_body", "trigger_id", "SLACK_BOT_TOKEN"}

\* the reference submission of each endpoint: the end-to-end example for the
\* pipeline, the documented Workflow Builder body for the bridge
Reference(e) ==
  [ method         |-> "POST",
    authorization  |-> "none",
    has_body       |-> TRUE,
    API_KEY        |-> FALSE,
    STRIPE_SECRET_KEY |-> TRUE,
    CLICKUP_API_TOKEN |-> TRUE,
    SLACK_BOT_TOKEN   |-> TRUE,
    contract_type  |-> IF e = "slack-contract" THEN Str(T_Sprint_1) ELSE Str(T_sprint1),
    client_company |-> Str(T_Acme),
    client_first   |-> Str(T_John),
    client_last    |-> Str(T_Doe),
    client_title   |-> Str(T_CEO),
    client_email   |-> Str(T_email),
    amount         |-> Str(T_5000),
    scope          |-> IF e = "generate-and-send" THEN Undefined ELSE Str(T_links),
    deliverable    |-> IF e = "generate-and-send" THEN Str(T_audit) ELSE Undefined,
    payload        |-> "submission",
    user           |-> TRUE,
    trigger_id     |-> TRUE ]

\* every scenario at most one edit away from a scenario of S
OneEdit(e, S) ==
  UNION { { [sc EXCEPT ![c] = v] : v \in Choices[c] } : <<sc, c>> \in S \X Components(e) }

\* the scenarios at most n edits away from the reference submission
RECURSIVE Scenarios(_, _)
Scenarios(e, n) ==
  IF n = 0 THEN {Reference(e)} ELSE OneEdit(e, Scenarios(e, n - 1))

NoBody == [f \in BodyFields |-> Undefined]

BodyOf(sc) == [f \in BodyFields |-> sc[f]]

EnvOf(sc) ==
  [ API_KEY |-> sc.API_KEY, STRIPE_SECRET_KEY |-> sc.STRIPE_SECRET_KEY,
    CLICKUP_API_TOKEN |-> sc.CLICKUP_API_TOKEN, SLACK_BOT_TOKEN |-> sc.SLACK_BOT_TOKEN ]

\* an HTTP request; has_body = FALSE is a request whose body is undefined
RequestOf(sc) ==
  [ present |-> TRUE, method |-> sc.method, authorization |-> sc.authorization,
    has_body |-> sc.has_body, body |-> IF sc.has_body THEN BodyOf(sc) ELSE NoBody ]

NoReq ==
  [ present |-> FALSE, method |-> "POST", authorization |-> "none",
    has_body |-> FALSE, body |-> NoBody ]

----------------------------------------------------------------------------
(* Results, responses and the log of external requests                    *)

Absent == "absent"

\* a per-stage sub-result (stripe, clickup): JS null, an object, the literal
\* {skipped: true}, or a key the response does not have
NullResult ==
  [ kind |-> "null", error |-> Absent, customerId |-> Absent,
    subscriptionId |-> Absent, invoiceId |-> Absent, invoiceUrl |-> Absent,
    recurring |-> Absent, id |-> Absent, url |-> Absent, ECODE |-> Absent ]

ObjectResult == [NullResult EXCEPT !.kind = "object"]
SkippedResult == [NullResult EXCEPT !.kind = "skipped"]
MissingResult == [NullResult EXCEPT !.kind = "missing"]
ErrorResult(reason) == [ObjectResult EXCEPT !.error = reason]

EmptyBody ==
  [ success |-> Absent, skipped |-> Absent, error |-> Absent, errors |-> <<>>,
    message |-> <<>>, document_id |-> Absent, signing_link |-> Absent,
    contract_type |-> Absent, client |-> <<>>, company |-> <<>>,
    amount |-> <<>>, stripe |-> MissingResult, clickup |-> MissingResult ]

\* crashed: the handler's promise rejected without a response; the platform
\* answers for it with a 500
NoRes == [sent |-> FALSE, crashed |-> FALSE, status |-> 0, body |-> EmptyBody]
Response(status, body) == [sent |-> TRUE, crashed |-> FALSE, status |-> status, body |-> body]
Crash == [sent |-> FALSE, crashed |-> TRUE, status |-> 500, body |-> EmptyBody]

\* one external request: provider, operation, and the arguments the
\* properties look at (a number, a text, a reference to another object)
Call(svc, op, num, text, ref) ==
  [svc |-> svc, op |-> op, num |-> num, text |-> text, ref |-> ref]
NoNum == Nat2Num(0)
Plain(svc, op) == Call(svc, op, NoNum, <<>>, Absent)

\* fieldsAdded and failed are history: that field placement succeeded, and
\* the best-effort stages in which a provider call has failed so far
InitLoc ==
  [ contractType |-> Absent, amount |-> <<>>, formattedAmount |-> <<>>,
    clientName |-> <<>>, token |-> Absent, docId |-> Absent, pageCount |-> -1,
    signingLink |-> Absent, amountCents |-> NaN, customerId |-> Absent,
    priceId |-> Absent, subscriptionId |-> Absent, invoiceId |-> Absent,
    stripeResult |-> NullResult, clickupResult |-> NullResult,
    fieldsAdded |-> FALSE, failed |-> {} ]

\* no second invocation: who is 0
NoOther ==
  [ who |-> 0, req |-> NoReq, pc |-> "idle", loc |-> InitLoc, calls |-> <<>>,
    res |-> NoRes, last |-> [op |-> "none", outcome |-> "none"] ]

\* the handler's configuration: what an atomic step reads and writes
Here == [pc |-> pc, loc |-> loc, calls |-> calls, res |-> res]
Become(c) == pc' = c.pc /\ loc' = c.loc /\ calls' = c.calls /\ res' = c.res

Issue(c, at, call) == [c EXCEPT !.pc = at, !.calls = Append(@, call)]
Reply(c, status, body) == [c EXCEPT !.pc = "done", !.res = Response(status, body)]

----------------------------------------------------------------------------
(* /api/generate-and-send: pure parts                                      *)

\* the switch set to false, which re-enables the email invite
DISABLE_SIGNNOW_INVITE_Off == FALSE

\* SIGNNOW CONFIG: email invites are switched off in both revisions
DISABLE_SIGNNOW_INVITE == TRUE

\* FirstMissing with the last required field left out of the loop
FirstMissing_ForgetsAmount(body) ==
  IF \E i \in 1..(Len(Required) - 1) : ~Truthy(body[Required[i]])
  THEN CHOOSE i \in 1..(Len(Required) - 1) :
         /\ ~Truthy(body[Required[i]])
         /\ \A j \in 1..(i - 1) : Truthy(body[Required[j]])
  ELSE 0

\* index in Required of the first field with a falsy value, 0 when none
FirstMissing(body) ==
  IF \E i \in 1..Len(Required) : ~Truthy(body[Required[i]])
  THEN CHOOSE i \in 1..Len(Required) :
         /\ ~Truthy(body[Required[i]])
         /\ \A j \in 1..(i - 1) : Truthy(body[Required[j]])
  ELSE 0

\* contract-type normalization of the handler
NormalizeType(r, v) ==
  IF r = "link"
  THEN LET rawType == Trim(ToLowerCase(ToText(OrElse(v, Str(<<>>))))) IN
         IF rawType = T_phase2 \/ rawType = T_phase_2 \/ rawType = T_p2
         THEN "phase2" ELSE "sprint1"
  ELSE IF v = Str(T_Phase_2) THEN "phase2" ELSE "sprint1"

\* Math.round(parseFloat(amount) * 100)
AmountCents(amount) ==
  LET f == ParseFloat(amount) IN IF f.nan THEN NaN ELSE Nat2Num(f.val * 100 + f.frac)

\* docInfo.page_count || (docInfo.pages ? docInfo.pages.length : 1), where
\* -1 stands for a missing member
PageCount(docInfo) ==
  IF docInfo.page_count > 0 THEN docInfo.page_count
  ELSE IF docInfo.pages >= 0 THEN docInfo.pages ELSE 1

ViewerUrl(docId) == "https://app.signnow.com/webapp/document/" \o docId

----------------------------------------------------------------------------
(* /api/generate-and-send: the handler, from its last step to its first    *)

StripeOk(c) == c.loc.stripeResult.kind = "object" /\ c.loc.stripeResult.error = Absent

\* clickupResult && !clickupResult.error && !clickupResult.err
ClickupOk(c) == c.loc.clickupResult.kind = "object" /\ c.loc.clickupResult.error = Absent

\* res.status(200).json({success: true, ...})
SendResult(c) ==
  LET l == c.loc
      common ==
        [ EmptyBody EXCEPT
            !.success = "true",
            !.document_id = l.docId,
            !.contract_type = l.contractType,
            !.client = l.clientName,
            !.company = ToText(req.body.client_company),
            !.amount = l.formattedAmount,
            !.stripe = IF l.stripeResult.kind = "null" THEN SkippedResult
                       ELSE l.stripeResult ]
      created == IF StripeOk(c) THEN <<", Stripe invoice created">> ELSE <<>>
  IN
    IF rev = "link"
    THEN Reply(c, 200,
           [ common EXCEPT
               !.message = <<"Contract generated, uploaded to SignNow">> \o created,
               !.signing_link = l.signingLink ])
    ELSE Reply(c, 200,
           [ common EXCEPT
               !.message = <<"Contract generated, uploaded to SignNow">> \o created
                           \o (IF ClickupOk(c) THEN <<", ClickUp task created">> ELSE <<>>),
               !.clickup =
                 IF ClickupOk(c)
                 THEN [ObjectResult EXCEPT !.id = l.clickupResult.id, !.url = l.clickupResult.url]
                 ELSE IF l.clickupResult.kind = "object" /\ l.clickupResult.error # Absent
                      THEN [ObjectResult EXCEPT !.error = l.clickupResult.error,
                                                !.ECODE = l.clickupResult.ECODE]
                      ELSE SkippedResult ])

\* Fail that also reports the document uploaded so far
Fail_KeepsDocument(c, reason) ==
  Reply(c, 500, [EmptyBody EXCEPT !.success = "false", !.error = reason,
                                  !.document_id = c.loc.docId])

\* the outer catch: res.status(500).json({success: false, error})
Fail(c, reason) ==
  Reply(c, 500, [EmptyBody EXCEPT !.success = "false", !.error = reason])

ToUpperChar(ch) ==
  IF \E k \in 1..26 : LowerCase[k] = ch
  THEN UpperCase[CHOOSE k \in 1..26 : LowerCase[k] = ch]
  ELSE ch

\* String.prototype.toUpperCase
ToUpperCase(s) == [i \in 1..Len(s) |-> ToUpperChar(s[i])]

TypeText(t) == IF t = "phase2" THEN T_phase2 ELSE T_sprint1

\* name of the tracker task
TaskName(company, contractType) ==
  <<"C", "o", "n", "t", "r", "a", "c", "t", ":", " ">> \o company
    \o <<" ", "-", " ">> \o ToUpperCase(TypeText(contractType))

\* (parseInt(amount) || 0), the amount written into the task
TaskAmount(amount) ==
  LET i == ParseInt(amount) IN IF i.nan THEN Nat2Num(0) ELSE i

\* CreateClickUpTask that never passes the invoice URL on
CreateClickUpTask_NoInvoiceUrl(c) ==
  IF ~env.CLICKUP_API_TOKEN
  THEN SendResult([c EXCEPT !.loc.clickupResult = ErrorResult("CLICKUP_API_TOKEN not set"),
                            !.loc.failed = @ \cup {"clickup"}])
  ELSE Issue(c, "clickupTask",
             Call("clickup", "POST /list/{id}/task", TaskAmount(c.loc.amount),
                  TaskName(ToText(req.body.client_company), c.loc.contractType),
                  Absent))

\* the ClickUp block of the handler up to its request; clickupRequest
\* rejects before sending anything when the token is not configured
CreateClickUpTask(c) ==
  IF ~env.CLICKUP_API_TOKEN
  THEN SendResult([c EXCEPT !.loc.clickupResult = ErrorResult("CLICKUP_API_TOKEN not set"),
                            !.loc.failed = @ \cup {"clickup"}])
  ELSE Issue(c, "clickupTask",
             Call("clickup", "POST /list/{id}/task", TaskAmount(c.loc.amount),
                  TaskName(ToText(req.body.client_company), c.loc.contractType),
                  c.loc.stripeResult.invoiceUrl))

\* what follows the Stripe block: the response in the signing-link
\* revision, the ClickUp block in the other
AfterStripe(c) == IF rev = "link" THEN SendResult(c) ELSE CreateClickUpTask(c)

\* catch (stripeErr) { stripeResult = { error: stripeErr.message } }
StripeThrows(c, reason) ==
  AfterStripe([c EXCEPT !.loc.stripeResult = ErrorResult(reason),
                        !.loc.failed = @ \cup {"stripe"}])

\* the Stripe block of the handler up to its first request; stripeRequest
\* rejects before sending anything when the key is not configured
CreateStripeInvoice(c) ==
  LET d == [c EXCEPT !.loc.amountCents = AmountCents(c.loc.amount)] IN
    IF ~env.STRIPE_SECRET_KEY
    THEN StripeThrows(d, "STRIPE_SECRET_KEY not set")
    ELSE Issue(d, "stripeCustomer", Plain("stripe", "POST /customers"))

\* the invite step that follows the signing link (or field placement)
AfterSigningLink(c) ==
  IF DISABLE_SIGNNOW_INVITE
  THEN CreateStripeInvoice(c)
  ELSE Issue(c, "snSendInvite", Plain("signnow", "POST /document/{id}/invite"))

\* SigningLinkFallback without the try block: the error reaches the outer catch
SigningLinkFallback_Aborts(c) == Fail(c, "Signing link generation failed")

\* catch (linkErr): fall back to the document-viewer URL
SigningLinkFallback(c) ==
  AfterSigningLink([c EXCEPT !.loc.signingLink = ViewerUrl(c.loc.docId)])

----------------------------------------------------------------------------
(* /api/generate-and-send: the steps                                       *)

\* HandlerEntry without the API-key guard
HandlerEntry_NoKeyCheck ==
  /\ pc = "start"
  /\ LET c == Here
         body == req.body
         missing == FirstMissing(body)
         amount == StripCurrency(ToText(body.amount))
     IN
       Become(
         IF req.method = "OPTIONS" THEN Reply(c, 200, EmptyBody)
         ELSE IF req.method # "POST"
           THEN Reply(c, 405, [EmptyBody EXCEPT !.error = "Method not allowed. Use POST."])
         ELSE IF ~req.has_body
           THEN Fail(c, "TypeError: cannot read properties of undefined")
         ELSE IF missing # 0
           THEN Reply(c, 200, [EmptyBody EXCEPT !.skipped = "true"])
         ELSE [c EXCEPT
                 !.pc = "generateContract",
                 !.loc.contractType = NormalizeType(rev, body.contract_type),
                 !.loc.amount = amount,
                 !.loc.formattedAmount = ToLocaleString(ToNumber(amount)),
                 !.loc.clientName = ToText(body.client_first) \o <<" ">>
                                      \o ToText(body.client_last)])
  /\ last' = [op |-> "HandlerEntry", outcome |-> "none"]
  /\ UNCHANGED <<other, rev, env, entry, req, svars, ivars, cvars>>

\* lines 929-986 / 1769-1825: CORS, method and API-key guards, validation
\* of the required fields, normalization, up to the rendering of the document
HandlerEntry ==
  /\ pc = "start"
  /\ LET c == Here
         body == req.body
         missing == FirstMissing(body)
         amount == StripCurrency(ToText(body.amount))
     IN
       Become(
         IF req.method = "OPTIONS" THEN Reply(c, 200, EmptyBody)
         ELSE IF req.method # "POST"
           THEN Reply(c, 405, [EmptyBody EXCEPT !.error = "Method not allowed. Use POST."])
         ELSE IF env.API_KEY /\ req.authorization # "match"
           THEN Reply(c, 401, [EmptyBody EXCEPT !.error = "Unauthorized"])
         ELSE IF ~req.has_body
           THEN Fail(c, "TypeError: cannot read properties of undefined")
         ELSE IF missing # 0
           THEN Reply(c, 200,
                  [EmptyBody EXCEPT
                     !.skipped = "true",
                     !.message = <<"Incomplete submission - missing field: ",
                                   Required[missing]>>])
         ELSE [c EXCEPT
                 !.pc = "generateContract",
                 !.loc.contractType = NormalizeType(rev, body.contract_type),
                 !.loc.amount = amount,
                 !.loc.formattedAmount = ToLocaleString(ToNumber(amount)),
                 !.loc.clientName = ToText(body.client_first) \o <<" ">>
                                      \o ToText(body.client_last)])
  /\ last' = [op |-> "HandlerEntry", outcome |-> "none"]
  /\ UNCHANGED <<other, rev, env, entry, req, svars, ivars, cvars>>

\* generateContract resolves with the document; snAuthenticate sends its request
GenerateContract ==
  /\ pc = "generateContract"
  /\ Become(Issue(Here, "snAuthenticate", Plain("signnow", "POST /oauth2/token")))
  /\ last' = [op |-> "GenerateContract", outcome |-> "ok"]
  /\ UNCHANGED <<other, rev, env, entry, req, svars, ivars, cvars>>

AuthOutcomes == {"ok", "no_token", "net_error"}

\* SnAuthenticate with one retry of the token request after a failure
SnAuthenticate_Retries ==
  /\ pc = "snAuthenticate"
  /\ \E o \in AuthOutcomes :
       /\ last' = [op |-> "SnAuthenticate", outcome |-> o]
       /\ Become(
            IF o = "ok"
            THEN Issue([Here EXCEPT !.loc.token = "access-token"], "snUpload",
                       Plain("signnow", "POST /document"))
            ELSE IF Len(calls) < 2
              THEN Issue(Here, "snAuthenticate", Plain("signnow", "POST /oauth2/token"))
              ELSE Fail(Here, "SignNow auth failed"))
  /\ UNCHANGED <<other, rev, env, entry, req, svars, ivars, cvars>>

\* snAuthenticate: a token, or a throw that reaches the outer catch
SnAuthenticate ==
  /\ pc = "snAuthenticate"
  /\ \E o \in AuthOutcomes :
       /\ last' = [op |-> "SnAuthenticate", outcome |-> o]
       /\ Become(
            CASE o = "ok" ->
                   Issue([Here EXCEPT !.loc.token = "access-token"], "snUpload",
                         Plain("signnow", "POST /document"))
              [] o = "no_token" -> Fail(Here, "SignNow auth failed")
              [] o = "net_error" -> Fail(Here, "transport error"))
  /\ UNCHANGED <<other, rev, env, entry, req, svars, ivars, cvars>>

\* the invocation that is running: 1 unless the first one is suspended
Me == IF other.who = 1 THEN 2 ELSE 1

\* the provider names every uploaded document differently
DocIds == {IF Me = 1 THEN "doc-1" ELSE "doc-2"}
UploadOutcomes == {"ok", "no_id", "net_error"}

\* SnUpload with the failure caught locally, like a best-effort step
SnUpload_Swallowed ==
  /\ pc = "snUpload"
  /\ \E o \in UploadOutcomes, id \in DocIds :
       /\ last' = [op |-> "SnUpload", outcome |-> o]
       /\ Become(
            IF o = "ok"
            THEN Issue([Here EXCEPT !.loc.docId = id], "snGetDocInfo",
                       Plain("signnow", "GET /document/{id}"))
            ELSE CreateStripeInvoice(Here))
  /\ UNCHANGED <<other, rev, env, entry, req, svars, ivars, cvars>>

\* snUpload: a document id, or a throw that reaches the outer catch
SnUpload ==
  /\ pc = "snUpload"
  /\ \E o \in UploadOutcomes, id \in DocIds :
       /\ last' = [op |-> "SnUpload", outcome |-> o]
       /\ Become(
            CASE o = "ok" ->
                   Issue([Here EXCEPT !.loc.docId = id], "snGetDocInfo",
                         Plain("signnow", "GET /document/{id}"))
              [] o = "no_id" -> Fail(Here, "SignNow upload failed")
              [] o = "net_error" -> Fail(Here, "transport error"))
  /\ UNCHANGED <<other, rev, env, entry, req, svars, ivars, cvars>>

\* bodies of the metadata response; -1 is a member the body does not have
DocInfos == [page_count : -1..MaxPages, pages : -1..MaxPages]

\* snGetDocInfo returns the body whatever it is; the handler computes the
\* page count and snAddFields sends the two fields for the last page
SnGetDocInfo ==
  /\ pc = "snGetDocInfo"
  /\ \/ \E docInfo \in DocInfos :
          LET pageCount == PageCount(docInfo) IN
            /\ last' = [op |-> "SnGetDocInfo", outcome |-> "ok"]
            /\ Become(Issue([Here EXCEPT !.loc.pageCount = pageCount], "snAddFields",
                            Call("signnow", "PUT /document/{id}", Nat2Num(pageCount - 1),
                                 <<>>, Absent)))
     \/ /\ last' = [op |-> "SnGetDocInfo", outcome |-> "net_error"]
        /\ Become(Fail(Here, "transport error"))
  /\ UNCHANGED <<other, rev, env, entry, req, svars, ivars, cvars>>

FieldOutcomes == {"ok", "errors", "net_error"}

\* SnAddFields that goes on when the provider answers with errors
SnAddFields_IgnoresErrors ==
  /\ pc = "snAddFields"
  /\ \E o \in FieldOutcomes :
       /\ last' = [op |-> "SnAddFields", outcome |-> o]
       /\ Become(
            CASE o = "ok" ->
                   IF rev = "link"
                   THEN Issue([Here EXCEPT !.loc.fieldsAdded = TRUE], "snLinkRoles",
                              Plain("signnow", "GET /document/{id}"))
                   ELSE AfterSigningLink([Here EXCEPT !.loc.fieldsAdded = TRUE])
              [] o = "errors" ->
                   IF rev = "link"
                   THEN Issue(Here, "snLinkRoles", Plain("signnow", "GET /document/{id}"))
                   ELSE AfterSigningLink(Here)
              [] o = "net_error" -> Fail(Here, "transport error"))
  /\ UNCHANGED <<other, rev, env, entry, req, svars, ivars, cvars>>

\* snAddFields: then the signing link (first revision) or the invite step
SnAddFields ==
  /\ pc = "snAddFields"
  /\ \E o \in FieldOutcomes :
       /\ last' = [op |-> "SnAddFields", outcome |-> o]
       /\ Become(
            CASE o = "ok" ->
                   IF rev = "link"
                   THEN Issue([Here EXCEPT !.loc.fieldsAdded = TRUE], "snLinkRoles",
                              Plain("signnow", "GET /document/{id}"))
                   ELSE AfterSigningLink([Here EXCEPT !.loc.fieldsAdded = TRUE])
              [] o = "errors" -> Fail(Here, "SignNow field error")
              [] o = "net_error" -> Fail(Here, "transport error"))
  /\ UNCHANGED <<other, rev, env, entry, req, svars, ivars, cvars>>

RoleOutcomes == {"client_role", "no_client_role", "net_error"}

\* snCreateSigningLink, step 1: the document's roles
SnLinkRoles ==
  /\ pc = "snLinkRoles"
  /\ \E o \in RoleOutcomes :
       /\ last' = [op |-> "SnLinkRoles", outcome |-> o]
       /\ Become(
            IF o = "client_role"
            THEN Issue(Here, "snLinkInvite",
                       Plain("signnow", "POST /v2/documents/{id}/embedded-invites"))
            ELSE SigningLinkFallback(Here))
  /\ UNCHANGED <<other, rev, env, entry, req, svars, ivars, cvars>>

InviteOutcomes == {"ok", "rejected", "no_invite_id", "net_error"}

\* snCreateSigningLink, step 2: the embedded invite
SnLinkInvite ==
  /\ pc = "snLinkInvite"
  /\ \E o \in InviteOutcomes :
       /\ last' = [op |-> "SnLinkInvite", outcome |-> o]
       /\ Become(
            IF o = "ok"
            THEN Issue(Here, "snLinkUrl",
                       Plain("signnow", "POST /v2/documents/{id}/embedded-invites/{invite}/link"))
            ELSE SigningLinkFallback(Here))
  /\ UNCHANGED <<other, rev, env, entry, req, svars, ivars, cvars>>

LinkOutcomes == {"ok", "rejected", "net_error"}

\* snCreateSigningLink, step 3: the link itself
SnLinkUrl ==
  /\ pc = "snLinkUrl"
  /\ \E o \in LinkOutcomes :
       /\ last' = [op |-> "SnLinkUrl", outcome |-> o]
       /\ Become(
            IF o = "ok"
            THEN AfterSigningLink([Here EXCEPT !.loc.signingLink = "https://signnow/embedded-link"])
            ELSE SigningLinkFallback(Here))
  /\ UNCHANGED <<other, rev, env, entry, req, svars, ivars, cvars>>

SendInviteOutcomes == {"ok", "errors", "net_error"}

\* snSendInvite: reached only when DISABLE_SIGNNOW_INVITE is false
SnSendInvite ==
  /\ pc = "snSendInvite"
  /\ \E o \in SendInviteOutcomes :
       /\ last' = [op |-> "SnSendInvite", outcome |-> o]
       /\ Become(
            CASE o = "ok" -> CreateStripeInvoice(Here)
              [] o = "errors" -> Fail(Here, "SignNow invite error")
              [] o = "net_error" -> Fail(Here, "transport error"))
  /\ UNCHANGED <<other, rev, env, entry, req, svars, ivars, cvars>>

\* stripeRequest resolves with any JSON body, an error object included, and
\* rejects on an unparsable body or a transport error
StripeOutcomes == {"ok", "error_object", "parse_error", "net_error"}
StripeResolves(o) == o \in {"ok", "ok_no_invoice", "error_object"}
StripeReason(o) == IF o = "parse_error" THEN "Stripe parse error" ELSE "transport error"

\* member of a resolved Stripe body: undefined when the body is an error object
Member(o, value) == IF o = "error_object" THEN Absent ELSE value

\* a resolved error body counts as a failed call of its stage
Noted(c, stage, o) ==
  IF o \in {"ok", "ok_no_invoice"} THEN c ELSE [c EXCEPT !.loc.failed = @ \cup {stage}]

\* isRecurring of the handler; the second revision bills one-time only
IsRecurring(c) == rev = "link" /\ c.loc.contractType = "phase2"

\* createStripeInvoice: the customer, then the branch on the billing mode
StripeCustomer ==
  /\ pc = "stripeCustomer"
  /\ \E o \in StripeOutcomes :
       /\ last' = [op |-> "StripeCustomer", outcome |-> o]
       /\ LET c == [Noted(Here, "stripe", o) EXCEPT !.loc.customerId = Member(o, "cus_1")] IN
            Become(
              IF ~StripeResolves(o) THEN StripeThrows(Here, StripeReason(o))
              ELSE IF IsRecurring(c)
                THEN Issue(c, "stripePrice",
                           Call("stripe", "POST /prices", c.loc.amountCents, <<>>, Absent))
                ELSE Issue(c, "stripeInvoice",
                           Call("stripe", "POST /invoices", NoNum, <<>>, c.loc.customerId)))
  /\ UNCHANGED <<other, rev, env, entry, req, svars, ivars, cvars>>

\* recurring mode: the monthly price
StripePrice ==
  /\ pc = "stripePrice"
  /\ \E o \in StripeOutcomes :
       /\ last' = [op |-> "StripePrice", outcome |-> o]
       /\ LET c == [Noted(Here, "stripe", o) EXCEPT !.loc.priceId = Member(o, "price_1")] IN
            Become(
              IF ~StripeResolves(o) THEN StripeThrows(Here, StripeReason(o))
              ELSE Issue(c, "stripeSubscription",
                         Call("stripe", "POST /subscriptions", NoNum, <<>>, c.loc.priceId)))
  /\ UNCHANGED <<other, rev, env, entry, req, svars, ivars, cvars>>

\* recurring mode: the subscription; its first invoice is fetched when the
\* body names one
StripeSubscription ==
  /\ pc = "stripeSubscription"
  /\ \E o \in StripeOutcomes \cup {"ok_no_invoice"} :
       /\ last' = [op |-> "StripeSubscription", outcome |-> o]
       /\ LET c == [Noted(Here, "stripe", o) EXCEPT !.loc.subscriptionId = Member(o, "sub_1")]
              result == [ObjectResult EXCEPT !.customerId = c.loc.customerId,
                                             !.subscriptionId = c.loc.subscriptionId,
                                             !.recurring = "true"]
          IN
            Become(
              IF ~StripeResolves(o) THEN StripeThrows(Here, StripeReason(o))
              ELSE IF o = "ok"
                THEN Issue([c EXCEPT !.loc.invoiceId = "in_1"], "stripeLatestInvoice",
                           Call("stripe", "GET /invoices/{id}", NoNum, <<>>, "in_1"))
                ELSE AfterStripe([c EXCEPT !.loc.stripeResult = result]))
  /\ UNCHANGED <<other, rev, env, entry, req, svars, ivars, cvars>>

\* recurring mode: the subscription's first invoice
StripeLatestInvoice ==
  /\ pc = "stripeLatestInvoice"
  /\ \E o \in StripeOutcomes :
       /\ last' = [op |-> "StripeLatestInvoice", outcome |-> o]
       /\ LET result == [ObjectResult EXCEPT !.customerId = loc.customerId,
                                             !.subscriptionId = loc.subscriptionId,
                                             !.invoiceId = loc.invoiceId,
                                             !.invoiceUrl = Member(o, "https://stripe/invoice"),
                                             !.recurring = "true"]
          IN
            Become(
              IF ~StripeResolves(o) THEN StripeThrows(Here, StripeReason(o))
              ELSE AfterStripe([Noted(Here, "stripe", o) EXCEPT !.loc.stripeResult = result]))
  /\ UNCHANGED <<other, rev, env, entry, req, svars, ivars, cvars>>

\* one-time mode: the draft invoice
StripeInvoice ==
  /\ pc = "stripeInvoice"
  /\ \E o \in StripeOutcomes :
       /\ last' = [op |-> "StripeInvoice", outcome |-> o]
       /\ LET c == [Noted(Here, "stripe", o) EXCEPT !.loc.invoiceId = Member(o, "in_1")] IN
            Become(
              IF ~StripeResolves(o) THEN StripeThrows(Here, StripeReason(o))
              ELSE Issue(c, "stripeInvoiceItem",
                         Call("stripe", "POST /invoiceitems", c.loc.amountCents, <<>>,
                              c.loc.invoiceId)))
  /\ UNCHANGED <<other, rev, env, entry, req, svars, ivars, cvars>>

\* one-time mode: the line item
StripeInvoiceItem ==
  /\ pc = "stripeInvoiceItem"
  /\ \E o \in StripeOutcomes :
       /\ last' = [op |-> "StripeInvoiceItem", outcome |-> o]
       /\ Become(
            IF ~StripeResolves(o) THEN StripeThrows(Here, StripeReason(o))
            ELSE Issue(Noted(Here, "stripe", o), "stripeFinalize",
                       Call("stripe", "POST /invoices/{id}/finalize", NoNum, <<>>,
                            loc.invoiceId)))
  /\ UNCHANGED <<other, rev, env, entry, req, svars, ivars, cvars>>

\* one-time mode: finalization, and the result of createStripeInvoice
StripeFinalize ==
  /\ pc = "stripeFinalize"
  /\ \E o \in StripeOutcomes :
       /\ last' = [op |-> "StripeFinalize", outcome |-> o]
       /\ LET result == [ObjectResult EXCEPT !.customerId = loc.customerId,
                                             !.invoiceId = loc.invoiceId,
                                             !.invoiceUrl = Member(o, "https://stripe/invoice"),
                                             !.recurring = IF rev = "link" THEN "false" ELSE Absent]
          IN
            Become(
              IF ~StripeResolves(o) THEN StripeThrows(Here, StripeReason(o))
              ELSE AfterStripe([Noted(Here, "stripe", o) EXCEPT !.loc.stripeResult = result]))
  /\ UNCHANGED <<other, rev, env, entry, req, svars, ivars, cvars>>

ClickUpOutcomes == {"ok", "err_object", "parse_error", "net_error"}

\* the ClickUp block after its request: an error body is turned into
\* {error, ECODE}, a rejection into {error}
ClickUpTask ==
  /\ pc = "clickupTask"
  /\ \E o \in ClickUpOutcomes :
       /\ last' = [op |-> "ClickUpTask", outcome |-> o]
       /\ Become(SendResult(
            [Noted(Here, "clickup", o) EXCEPT !.loc.clickupResult =
               CASE o = "ok" -> [ObjectResult EXCEPT !.id = "task-1", !.url = "https://clickup/t/task-1"]
                 [] o = "err_object" -> [ErrorResult("Team not authorized") EXCEPT !.ECODE = "OAUTH_027"]
                 [] o = "parse_error" -> ErrorResult("ClickUp parse error")
                 [] o = "net_error" -> ErrorResult("transport error")]))
  /\ UNCHANGED <<other, rev, env, entry, req, svars, ivars, cvars>>

----------------------------------------------------------------------------
(* /api/slack-contract: pure parts                                         *)

\* the fields validateFields requires, in the order it checks them
SlackRequired == Required \o <<"scope">>

\* !val || (typeof val === "string" && val.trim() === "")
IsBlank(v) == ~Truthy(v) \/ (v.t = "string" /\ Trim(v.s) = <<>>)

\* /^[^\s@]+@[^\s@]+\.[^\s@]+$/.test(s)
EmailShape(s) ==
  /\ \A i \in 1..Len(s) : s[i] \notin Whitespace
  /\ Cardinality({i \in 1..Len(s) : s[i] = "@"}) = 1
  /\ LET at == CHOOSE i \in 1..Len(s) : s[i] = "@" IN
       /\ at > 1
       /\ \E d \in (at + 2)..(Len(s) - 1) : s[d] = "."

\* normalizeContractType: null is Absent
normalizeContractType(raw) ==
  LET lower == Trim(ToLowerCase(ToText(raw))) IN
    IF lower = T_sprint1 \/ lower = <<"s", "p", "r", "i", "n", "t", " ", "1">> \/ lower = <<"s", "1">>
    THEN "sprint1"
    ELSE IF lower = T_phase_2 \/ lower = T_phase2 \/ lower = T_p2
      THEN "phase2"
      ELSE Absent

\* isNaN(cleanAmount) || parseFloat(cleanAmount) <= 0
AmountInvalid(v) ==
  LET cleanAmount == StripCurrencySpace(ToText(v)) IN
    ToNumber(cleanAmount).nan
      \/ (~ParseFloat(cleanAmount).nan /\ ~Positive(ParseFloat(cleanAmount)))

\* validateFields: one entry per violated rule, the missing fields first
validateFields(body) ==
  LET missing == SelectSeq(SlackRequired, LAMBDA f : IsBlank(body[f])) IN
    [i \in 1..Len(missing) |-> <<"missing", missing[i]>>]
      \o (IF Truthy(body.client_email) /\ ~EmailShape(Trim(ToText(body.client_email)))
          THEN << <<"invalid", "client_email">> >> ELSE <<>>)
      \o (IF Truthy(body.amount) /\ AmountInvalid(body.amount)
          THEN << <<"invalid", "amount">> >> ELSE <<>>)
      \o (IF Truthy(body.contract_type) /\ normalizeContractType(body.contract_type) = Absent
          THEN << <<"invalid", "contract_type">> >> ELSE <<>>)

\* the body handed to /api/generate-and-send
PipelineBody(body) ==
  [ NoBody EXCEPT
      !.contract_type  = Str(TypeText(normalizeContractType(body.contract_type))),
      !.client_company = Str(Trim(ToText(body.client_company))),
      !.client_first   = Str(Trim(ToText(body.client_first))),
      !.client_last    = Str(Trim(ToText(body.client_last))),
      !.client_title   = Str(Trim(ToText(body.client_title))),
      !.client_email   = Str(ToLowerCase(Trim(ToText(body.client_email)))),
      !.amount         = Str(StripCurrencySpace(ToText(body.amount))),
      !.scope          = Str(Trim(ToText(OrElse(body.scope, Str(<<>>))))) ]

InitSloc == [errors |-> <<>>, result |-> EmptyBody, received |-> FALSE, caught |-> Absent]

SHere == [pc |-> spc, loc |-> sloc, calls |-> scalls, res |-> sres]
SBecome(c) == spc' = c.pc /\ sloc' = c.loc /\ scalls' = c.calls /\ sres' = c.res

ValidationBody(errors) ==
  [EmptyBody EXCEPT !.success = "false", !.errors = errors, !.message = <<"Validation failed">>]

CallFailedBody == [EmptyBody EXCEPT !.success = "false", !.error = "Pipeline call failed"]

\* res.status(200).json({success: false, errors, message})
ValidationReply(c) == Reply(c, 200, ValidationBody(c.loc.errors))

\* res.status(200).json({success: false, error: "Pipeline call failed: ..."})
CallFailedReply(c) == Reply(c, 200, CallFailedBody)

\* the catch block around the pipeline call and the result post
PipelineCatch(c, reason) ==
  LET d == [c EXCEPT !.loc.caught = reason] IN
    IF env.SLACK_BOT_TOKEN
    THEN Issue(d, "postCrash", Plain("slack", "chat.postMessage: pipeline crashed"))
    ELSE CallFailedReply(d)

----------------------------------------------------------------------------
(* /api/slack-contract: the steps                                          *)

\* lines 430-487: method guard, validation, normalization, up to the first
\* outbound request (the error post or the pipeline call)
SlackContractEntry ==
  /\ spc = "start"
  /\ LET c == SHere
         body == sreq.body
         errors == validateFields(body)
         d == [c EXCEPT !.loc.errors = errors]
     IN
       IF sreq.method # "POST"
       THEN /\ SBecome(Reply(c, 405, [EmptyBody EXCEPT !.error = "Method not allowed. Use POST."]))
            /\ UNCHANGED pvars
       ELSE IF errors # <<>>
       THEN /\ SBecome(IF env.SLACK_BOT_TOKEN
                       THEN Issue(d, "postErrors", Plain("slack", "chat.postMessage: validation errors"))
                       ELSE ValidationReply(d))
            /\ UNCHANGED pvars
       ELSE /\ SBecome(Issue(c, "callPipeline", Plain("pipeline", "POST /api/generate-and-send")))
            /\ req' = [ present |-> TRUE, method |-> "POST", authorization |-> "none",
                        has_body |-> TRUE, body |-> PipelineBody(body) ]
            /\ pc' = "start"
            /\ UNCHANGED <<loc, calls, res, last>>
  /\ UNCHANGED <<other, rev, env, entry, sreq, ivars, cvars>>

\* postToSlack resolves with whatever Slack answers (ok or not) and rejects
\* on a transport error
SlackOutcomes == {"ok", "not_ok", "net_error"}

\* the await of the validation-error post, outside any try block
PostErrors ==
  /\ spc = "postErrors"
  /\ \E o \in SlackOutcomes :
       SBecome(IF o = "net_error"
               THEN [SHere EXCEPT !.pc = "done", !.res = Crash]
               ELSE ValidationReply(SHere))
  /\ UNCHANGED <<other, rev, env, entry, sreq, pvars, ivars, cvars>>

\* the pipeline answers: its JSON body is the result, which is posted to
\* Slack when a token is configured and returned otherwise
PipelineAnswers ==
  /\ spc = "callPipeline"
  /\ pc = "done"
  /\ res.sent
  /\ LET c == [SHere EXCEPT !.loc.result = res.body, !.loc.received = TRUE] IN
       SBecome(IF env.SLACK_BOT_TOKEN
               THEN IF res.body.success = "true"
                    THEN Issue(c, "postResult", Plain("slack", "chat.postMessage: new contract"))
                    ELSE Issue(c, "postResult", Plain("slack", "chat.postMessage: pipeline error"))
               ELSE Reply(c, 200, res.body))
  /\ UNCHANGED <<other, rev, env, entry, sreq, pvars, ivars, cvars>>

\* postJSON rejects: the request never reached the pipeline, or its
\* response was lost
PipelineCallFails ==
  /\ spc = "callPipeline"
  /\ pc \in {"start", "done"}
  /\ SBecome(PipelineCatch(SHere, "transport error"))
  /\ IF pc = "start"
     THEN /\ pc' = "lost"
          /\ UNCHANGED <<req, loc, calls, res, last>>
     ELSE UNCHANGED pvars
  /\ UNCHANGED <<other, rev, env, entry, sreq, ivars, cvars>>

\* the await of the result post, inside the try block of the pipeline call
PostResult ==
  /\ spc = "postResult"
  /\ \E o \in SlackOutcomes :
       SBecome(IF o = "net_error"
               THEN PipelineCatch(SHere, "transport error")
               ELSE Reply(SHere, 200, sloc.result))
  /\ UNCHANGED <<other, rev, env, entry, sreq, pvars, ivars, cvars>>

\* the await of the crash post, inside the catch block
PostCrash ==
  /\ spc = "postCrash"
  /\ \E o \in SlackOutcomes :
       SBecome(IF o = "net_error"
               THEN [SHere EXCEPT !.pc = "done", !.res = Crash]
               ELSE CallFailedReply(SHere))
  /\ UNCHANGED <<other, rev, env, entry, sreq, pvars, ivars, cvars>>

----------------------------------------------------------------------------
(* /api/slack-interact: the modal-submission handler, in its four variants *)

Variants == {"fire", "inproc", "bridge", "handoff"}

\* payload: what extractPayload finds; values: the value of each block of
\* the modal, Undefined when the block holds none (a null selected_option)
InteractRequestOf(sc) ==
  [ present |-> TRUE, method |-> sc.method, payload |-> sc.payload,
    user |-> sc.user, values |-> BodyOf(sc) ]

NoInteract ==
  [ present |-> FALSE, method |-> "POST", payload |-> "none", user |-> FALSE,
    values |-> NoBody ]

\* formData of the variants that use extractFormValues
FormData(values) ==
  LET text(f) == ToText(OrElse(values[f], Str(<<>>))) IN
    [ NoBody EXCEPT
        !.contract_type  = OrElse(values.contract_type, Str(<<>>)),
        !.client_company = Str(Trim(text("client_company"))),
        !.client_first   = Str(Trim(text("client_first"))),
        !.client_last    = Str(Trim(text("client_last"))),
        !.client_title   = Str(Trim(text("client_title"))),
        !.client_email   = Str(ToLowerCase(Trim(text("client_email")))),
        !.amount         = Str(StripCurrencySpace(text("amount"))),
        !.scope          = Str(Trim(text("scope"))) ]

\* pipelineBody of the variant that awaits the bridge: the raw values, the
\* selection turned into the label the bridge expects
BridgeBody(values) ==
  [ [f \in BodyFields |-> IF f = "deliverable" THEN Undefined ELSE values[f]] EXCEPT
      !.contract_type = Str(IF values.contract_type = Str(T_sprint1)
                            THEN T_Sprint_1 ELSE T_Phase_2) ]

\* the response of a chat adapter: its body is text
NoChatRes == [sent |-> FALSE, crashed |-> FALSE, status |-> 0, body |-> ""]

\* the async handler rejected before it responded
ChatCrash == [sent |-> FALSE, crashed |-> TRUE, status |-> 500, body |-> ""]

\* answer: what the awaited endpoint answered; unhandled: a rejection that
\* no catch block took
InitIloc == [formData |-> NoBody, answer |-> "none", unhandled |-> FALSE]

IHere == [pc |-> ipc, loc |-> iloc, calls |-> icalls, res |-> ires]
IBecome(c) == ipc' = c.pc /\ iloc' = c.loc /\ icalls' = c.calls /\ ires' = c.res

\* a request leaves the handler; responded records whether the HTTP
\* response to Slack had been sent by then
IIssue(c, at, svc, op) ==
  [c EXCEPT !.pc = at,
            !.calls = Append(@, [svc |-> svc, op |-> op, responded |-> c.res.sent])]

\* res.status(status).send(body): the handler goes on after it
IRespond(c, status, body) ==
  [c EXCEPT !.res = [NoChatRes EXCEPT !.sent = TRUE, !.status = status, !.body = body]]

IReturn(c, status, body) == [IRespond(c, status, body) EXCEPT !.pc = "done"]

\* the catch block around the background work
ICatch(c) ==
  IF env.SLACK_BOT_TOKEN /\ (variant = "inproc" \/ ireq.user)
  THEN IIssue(c, "crashPost", "slack", "chat.postMessage: crashed")
  ELSE [c EXCEPT !.pc = "done"]

\* in-process variant, step 4: the DM to the submitting user
IDirectMessage(c) ==
  IF env.SLACK_BOT_TOKEN /\ ireq.user
  THEN IIssue(c, "dm", "slack", "chat.postMessage: DM")
  ELSE [c EXCEPT !.pc = "done"]

\* what follows the answer of the awaited endpoint
IAfterPipeline(c) ==
  IF variant = "inproc"
  THEN IF env.SLACK_BOT_TOKEN
       THEN IIssue(c, "results", "slack", "chat.postMessage: results")
       ELSE [c EXCEPT !.pc = "done"]
  ELSE IDirectMessage(c)

\* the call that starts the pipeline work
ICallPipeline(c) ==
  CASE variant = "inproc" -> IIssue(c, "pipeline", "pipeline", "POST /api/generate-and-send")
    [] variant = "bridge" -> IIssue(c, "pipeline", "bridge", "POST /api/slack-contract")
    [] OTHER -> IIssue(c, "handoff", "bridge", "POST /api/slack-contract")

\* the work after the response: the processing message, then the call
IBackground(c) ==
  IF env.SLACK_BOT_TOKEN /\ (variant = "inproc" \/ ireq.user)
  THEN IIssue(c, "processing", "slack", "chat.postMessage: processing")
  ELSE ICallPipeline(c)

\* method guard, payload extraction, the guards on the payload, the form
\* values, and the variant's first step.  A request without a payload has
\* a parsed body or none at all: the variant that awaits the bridge reads
\* req.body.payload inside its try, and takes a parsed body for the payload
InteractEntry ==
  /\ ipc = "start"
  /\ \E parsed \in BOOLEAN :
     LET c == IHere
         v == ireq.values
         d == [c EXCEPT !.loc.formData =
                 IF variant = "bridge" THEN BridgeBody(v) ELSE FormData(v)]
     IN
       IBecome(
         IF ireq.method # "POST" THEN IReturn(c, 405, "Method not allowed")
         ELSE IF ireq.payload \in {"none", "unparsable"}
           THEN IF variant = "bridge" /\ (ireq.payload = "unparsable" \/ ~parsed)
                THEN IReturn(c, 200, "errors: scope: Failed to parse form data")
                ELSE IReturn(c, 200, "")
         ELSE IF ireq.payload # "submission" THEN IReturn(c, 200, "")
         ELSE IF variant = "fire" THEN ICallPipeline(d)
         ELSE IF variant # "bridge" THEN IBackground(IRespond(d, 200, ""))
         ELSE IF v.contract_type = Undefined
           THEN [c EXCEPT !.pc = "done", !.res = ChatCrash]
         ELSE IF Truthy(v.client_email) /\ ~EmailShape(Trim(ToText(v.client_email)))
           THEN IReturn(c, 200, "errors: client_email")
         ELSE IF StripCurrencySpace(ToText(v.amount)) = <<>> \/ AmountInvalid(v.amount)
           THEN IReturn(c, 200, "errors: amount")
         ELSE IBackground(IRespond(d, 200, "")))
  /\ UNCHANGED <<other, rev, env, entry, variant, ireq, pvars, svars, cvars>>

\* the processing message is answered: slackAPI rejects on a transport
\* error, slackPostMessage of the hand-off variant resolves with ok = false
InteractProcessing ==
  /\ ipc = "processing"
  /\ \E o \in SlackOutcomes :
       IBecome(IF o = "net_error" /\ variant # "handoff"
               THEN ICatch(IHere) ELSE ICallPipeline(IHere))
  /\ UNCHANGED <<other, rev, env, entry, variant, ireq, pvars, svars, cvars>>

\* fireAndForget settles.  The first variant resolves from the callback of
\* req.write only, so a request whose body is never flushed leaves the
\* handler waiting; the hand-off variant resolves on flush, response or error
InteractHandoff ==
  /\ ipc = "handoff"
  /\ \E o \in {"flushed", "net_error", "never_flushed"} :
       IBecome(
         IF variant = "handoff" THEN [IHere EXCEPT !.pc = "done"]
         ELSE IF o = "never_flushed" THEN [IHere EXCEPT !.pc = "stalled"]
         ELSE IReturn(IHere, 200, "response_action: clear"))
  /\ UNCHANGED <<other, rev, env, entry, variant, ireq, pvars, svars, cvars>>

\* the awaited endpoint answers, or postJSON rejects
InteractPipeline ==
  /\ ipc = "pipeline"
  /\ \E o \in {"success", "failure", "net_error"} :
       LET c == [IHere EXCEPT !.loc.answer = o] IN
         IBecome(IF o = "net_error" THEN ICatch(c) ELSE IAfterPipeline(c))
  /\ UNCHANGED <<other, rev, env, entry, variant, ireq, pvars, svars, cvars>>

\* in-process variant, step 3: the post of the results is answered
InteractResults ==
  /\ ipc = "results"
  /\ \E o \in SlackOutcomes :
       IBecome(IF o = "net_error" THEN ICatch(IHere) ELSE IDirectMessage(IHere))
  /\ UNCHANGED <<other, rev, env, entry, variant, ireq, pvars, svars, cvars>>

\* the DM is answered: the in-process variant wraps it in a try of its own
InteractDM ==
  /\ ipc = "dm"
  /\ \E o \in SlackOutcomes :
       IBecome(IF o = "net_error" /\ variant = "bridge"
               THEN ICatch(IHere) ELSE [IHere EXCEPT !.pc = "done"])
  /\ UNCHANGED <<other, rev, env, entry, variant, ireq, pvars, svars, cvars>>

\* the post of the catch block is answered; only the in-process and
\* hand-off variants guard it
InteractCrashPost ==
  /\ ipc = "crashPost"
  /\ \E o \in SlackOutcomes :
       IBecome([IHere EXCEPT !.pc = "done",
                             !.loc.unhandled = (o = "net_error" /\ variant = "bridge")])
  /\ UNCHANGED <<other, rev, env, entry, variant, ireq, pvars, svars, cvars>>

----------------------------------------------------------------------------
(* /api/slack-command: the slash-command handler                           *)

CommandRequestOf(sc) ==
  [ present |-> TRUE, method |-> sc.method, has_body |-> sc.has_body,
    trigger_id |-> sc.has_body /\ sc.trigger_id ]

NoCommand == [present |-> FALSE, method |-> "POST", has_body |-> FALSE, trigger_id |-> FALSE]

CommandReturn(status, body) ==
  /\ cpc' = "done"
  /\ cres' = [NoChatRes EXCEPT !.sent = TRUE, !.status = status, !.body = body]

\* method guard, token guard, the read of req.body, trigger guard, up to
\* the views.open request
CommandEntry ==
  /\ cpc = "start"
  /\ IF creq.method # "POST"
     THEN CommandReturn(405, "Method not allowed") /\ UNCHANGED ccalls
     ELSE IF ~env.SLACK_BOT_TOKEN
     THEN CommandReturn(200, "ephemeral: SLACK_BOT_TOKEN not configured") /\ UNCHANGED ccalls
     ELSE IF ~creq.has_body
     THEN cpc' = "done" /\ cres' = ChatCrash /\ UNCHANGED ccalls
     ELSE IF ~creq.trigger_id
     THEN CommandReturn(200, "ephemeral: No trigger_id received") /\ UNCHANGED ccalls
     ELSE /\ cpc' = "viewsOpen"
          /\ ccalls' = Append(ccalls, [op |-> "views.open", answer |-> "pending"])
          /\ UNCHANGED cres
  /\ UNCHANGED <<other, rev, env, entry, creq, pvars, svars, ivars>>

\* ccalls keeps every request with the answer it got.
\* slackAPI resolves with Slack's answer, with {ok: false} when the answer
\* does not parse, and rejects on a transport error
ViewsOpenOutcomes == {"ok", "not_ok", "parse_error", "net_error"}

\* views.open is answered
ViewsOpen ==
  /\ cpc = "viewsOpen"
  /\ \E o \in ViewsOpenOutcomes :
       /\ ccalls' = [ccalls EXCEPT ![Len(ccalls)].answer = o]
       /\ CASE o = "ok" -> CommandReturn(200, "")
            [] o = "net_error" -> CommandReturn(200, "ephemeral: Error: transport error")
            [] OTHER -> CommandReturn(200, "ephemeral: Error opening form")
  /\ UNCHANGED <<other, rev, env, entry, creq, pvars, svars, ivars>>

----------------------------------------------------------------------------
(* The system                                                              *)

Revisions == {"link", "task"}
----------------------------------------------------------------------------
(* Two invocations of the pipeline in one process                          *)

\* Switch with the document id in a binding of the module, which both
\* invocations read and write
Switch_SharedDocId ==
  /\ other.who # 0
  /\ other.pc # "done"
  /\ other' = [who |-> Me, req |-> req, pc |-> pc, loc |-> loc, calls |-> calls,
               res |-> res, last |-> last]
  /\ req' = other.req
  /\ pc' = other.pc
  /\ loc' = [other.loc EXCEPT !.docId = loc.docId]
  /\ calls' = other.calls
  /\ res' = other.res
  /\ last' = other.last
  /\ UNCHANGED <<rev, env, entry, svars, ivars, cvars>>

\* the event loop resumes the other handler: at an await the running
\* invocation is suspended with its request, locals and response, and the
\* one that was suspended runs on with its own.  Nothing else is kept
\* between the two: the module-level bindings are constants
Switch ==
  /\ other.who # 0
  /\ other.pc # "done"
  /\ other' = [who |-> Me, req |-> req, pc |-> pc, loc |-> loc, calls |-> calls,
               res |-> res, last |-> last]
  /\ req' = other.req
  /\ pc' = other.pc
  /\ loc' = other.loc
  /\ calls' = other.calls
  /\ res' = other.res
  /\ last' = other.last
  /\ UNCHANGED <<rev, env, entry, svars, ivars, cvars>>

\* a second submission that differs from the reference one in the variant,
\* the client and the amount
SecondSubmission ==
  [ Reference("generate-and-send") EXCEPT
      !.contract_type  = Str(T_phase2),
      !.client_company = Str(<<"Z", "e", "t", "a">>),
      !.client_first   = Str(<<"J", "a", "n", "e">>),
      !.amount         = Str(<<"1", ",", "2", "5", "0", ",", "0", "0", "0">>) ]

\* the two requests that arrive together, by invocation
PairRequest ==
  [w \in {1, 2} |->
     RequestOf(IF w = 1 THEN Reference("generate-and-send") ELSE SecondSubmission)]

Endpoints == {"generate-and-send", "slack-contract", "slack-interact", "slack-command"}

\* one outside request arrives at one endpoint; the revision of the pipeline
\* and the variant of the interaction handler matter only where they run
Init ==
  /\ entry \in Endpoints
  /\ rev \in (IF entry \in {"generate-and-send", "slack-contract"} THEN Revisions ELSE {"link"})
  /\ variant \in (IF entry = "slack-interact" THEN Variants ELSE {"fire"})
  /\ \E sc \in Scenarios(entry, MaxEdits) :
       /\ env = EnvOf(sc)
       /\ req = (IF entry = "generate-and-send" THEN RequestOf(sc) ELSE NoReq)
       /\ sreq = (IF entry = "slack-contract" THEN RequestOf(sc) ELSE NoReq)
       /\ ireq = (IF entry = "slack-interact" THEN InteractRequestOf(sc) ELSE NoInteract)
       /\ creq = (IF entry = "slack-command" THEN CommandRequestOf(sc) ELSE NoCommand)
  /\ pc = (IF entry = "generate-and-send" THEN "start" ELSE "idle")
  /\ spc = (IF entry = "slack-contract" THEN "start" ELSE "idle")
  /\ ipc = (IF entry = "slack-interact" THEN "start" ELSE "idle")
  /\ cpc = (IF entry = "slack-command" THEN "start" ELSE "idle")
  /\ loc = InitLoc
  /\ calls = <<>>
  /\ res = NoRes
  /\ last = [op |-> "none", outcome |-> "none"]
  /\ sloc = InitSloc
  /\ scalls = <<>>
  /\ sres = NoRes
  /\ iloc = InitIloc
  /\ icalls = <<>>
  /\ ires = NoChatRes
  /\ ccalls = <<>>
  /\ cres = NoChatRes
  /\ other = NoOther

\* two requests arrive at /api/generate-and-send of the signing-link
\* revision; the first one runs, the second waits for its turn.  The
\* process has no Stripe key, so the requests that interleave are the
\* seven SignNow requests of each invocation
----------------------------------------------------------------------------
(* The adapters that await /api/generate-and-send, run against it          *)

\* postJSON(host, "/api/generate-and-send", formData, {}) of the in-process
\* variant reaches the pipeline: no Authorization header is among its headers
InprocSubmits ==
  /\ variant = "inproc"
  /\ ipc = "pipeline"
  /\ pc = "idle"
  /\ req' = [ present |-> TRUE, method |-> "POST", authorization |-> "none",
              has_body |-> TRUE, body |-> iloc.formData ]
  /\ pc' = "start"
  /\ UNCHANGED <<loc, calls, res, last>>
  /\ UNCHANGED <<other, rev, env, entry, svars, ivars, cvars>>

\* the pipeline answers the in-process variant: result.success decides
\* which message the adapter posts
InprocAnswers ==
  /\ variant = "inproc"
  /\ ipc = "pipeline"
  /\ pc = "done"
  /\ res.sent
  /\ IBecome(IAfterPipeline([IHere EXCEPT !.loc.answer =
               IF res.body.success = "true" THEN "success" ELSE "failure"]))
  /\ UNCHANGED <<other, rev, env, entry, variant, ireq, pvars, svars, cvars>>

\* postJSON of the in-process variant rejects: the request never reached
\* the pipeline, or its response was lost
InprocCallFails ==
  /\ variant = "inproc"
  /\ ipc = "pipeline"
  /\ pc \in {"start", "done"}
  /\ IBecome(ICatch([IHere EXCEPT !.loc.answer = "net_error"]))
  /\ IF pc = "start"
     THEN /\ pc' = "lost"
          /\ UNCHANGED <<req, loc, calls, res, last>>
     ELSE UNCHANGED pvars
  /\ UNCHANGED <<other, rev, env, entry, variant, ireq, svars, cvars>>

\* a submission to /api/slack-contract or to the in-process variant of
\* /api/slack-interact, with or without an inbound API key configured
AdapterInit ==
  /\ entry \in {"slack-contract", "slack-interact"}
  /\ rev \in Revisions
  /\ variant = (IF entry = "slack-interact" THEN "inproc" ELSE "fire")
  /\ \E sc \in Scenarios(entry, MaxEdits), key \in BOOLEAN :
       /\ env = [EnvOf(sc) EXCEPT !.API_KEY = key]
       /\ sreq = (IF entry = "slack-contract" THEN RequestOf(sc) ELSE NoReq)
       /\ ireq = (IF entry = "slack-interact" THEN InteractRequestOf(sc) ELSE NoInteract)
  /\ req = NoReq /\ creq = NoCommand /\ other = NoOther
  /\ pc = "idle" /\ cpc = "idle"
  /\ spc = (IF entry = "slack-contract" THEN "start" ELSE "idle")
  /\ ipc = (IF entry = "slack-interact" THEN "start" ELSE "idle")
  /\ loc = InitLoc /\ calls = <<>> /\ res = NoRes
  /\ last = [op |-> "none", outcome |-> "none"]
  /\ sloc = InitSloc /\ scalls = <<>> /\ sres = NoRes
  /\ iloc = InitIloc /\ icalls = <<>> /\ ires = NoChatRes
  /\ ccalls = <<>> /\ cres = NoChatRes

AdapterNext ==
  \/ HandlerEntry
  \/ GenerateContract
  \/ SnAuthenticate
  \/ SnUpload
  \/ SnGetDocInfo
  \/ SnAddFields
  \/ SnLinkRoles
  \/ SnLinkInvite
  \/ SnLinkUrl
  \/ StripeCustomer
  \/ StripePrice
  \/ StripeSubscription
  \/ StripeLatestInvoice
  \/ StripeInvoice
  \/ StripeInvoiceItem
  \/ StripeFinalize
  \/ ClickUpTask
  \/ SlackContractEntry
  \/ PostErrors
  \/ PipelineAnswers
  \/ PipelineCallFails
  \/ PostResult
  \/ PostCrash
  \/ InteractEntry
  \/ InteractProcessing
  \/ InprocSubmits
  \/ InprocAnswers
  \/ InprocCallFails
  \/ InteractResults
  \/ InteractDM
  \/ InteractCrashPost

AdapterSpec == AdapterInit /\ [][AdapterNext]_vars

PairInit ==
  /\ entry = "generate-and-send"
  /\ rev = "link"
  /\ variant = "fire"
  /\ env = [EnvOf(Reference(entry)) EXCEPT !.STRIPE_SECRET_KEY = FALSE]
  /\ req = PairRequest[1]
  /\ other = [NoOther EXCEPT !.who = 2, !.req = PairRequest[2], !.pc = "start"]
  /\ sreq = NoReq /\ ireq = NoInteract /\ creq = NoCommand
  /\ pc = "start" /\ spc = "idle" /\ ipc = "idle" /\ cpc = "idle"
  /\ loc = InitLoc /\ calls = <<>> /\ res = NoRes
  /\ last = [op |-> "none", outcome |-> "none"]
  /\ sloc = InitSloc /\ scalls = <<>> /\ sres = NoRes
  /\ iloc = InitIloc /\ icalls = <<>> /\ ires = NoChatRes
  /\ ccalls = <<>> /\ cres = NoChatRes

PairNext ==
  \/ HandlerEntry
  \/ GenerateContract
  \/ SnAuthenticate
  \/ SnUpload
  \/ SnGetDocInfo
  \/ SnAddFields
  \/ SnLinkRoles
  \/ SnLinkInvite
  \/ SnLinkUrl
  \/ Switch

PairSpec == PairInit /\ [][PairNext]_vars

Next ==
  \/ HandlerEntry
  \/ GenerateContract
  \/ SnAuthenticate
  \/ SnUpload
  \/ SnGetDocInfo
  \/ SnAddFields
  \/ SnLinkRoles
  \/ SnLinkInvite
  \/ SnLinkUrl
  \/ StripeCustomer
  \/ StripePrice
  \/ StripeSubscription
  \/ StripeLatestInvoice
  \/ StripeInvoice
  \/ StripeInvoiceItem
  \/ StripeFinalize
  \/ ClickUpTask
  \/ SlackContractEntry
  \/ PostErrors
  \/ PipelineAnswers
  \/ PipelineCallFails
  \/ PostResult
  \/ PostCrash
  \/ InteractEntry
  \/ InteractProcessing
  \/ InteractHandoff
  \/ InteractPipeline
  \/ InteractResults
  \/ InteractDM
  \/ InteractCrashPost
  \/ CommandEntry
  \/ ViewsOpen

Spec == Init /\ [][Next]_vars

----------------------------------------------------------------------------
(* Properties                                                              *)

HasCall(svc) == \E i \in 1..Len(calls) : calls[i].svc = svc

\* a POST that passes the method and API-key guards of the pipeline
Admitted ==
  req.present /\ req.method = "POST" /\ ~(env.API_KEY /\ req.authorization # "match")

EmptyValue(v) == v = Undefined \/ v = Str(<<>>)

LacksRequired ==
  req.has_body /\ \E i \in 1..Len(Required) : EmptyValue(req.body[Required[i]])

\* C1: a POST admitted by the guards whose body has a required field missing
\* or empty never gets past validation: no external request is ever issued,
\* and the response is HTTP 200 with skipped = true.
C1_MissingFieldSkipped ==
  (Admitted /\ LacksRequired) =>
    /\ calls = <<>>
    /\ pc \in {"start", "done", "lost"}
    /\ pc = "done" => (res.sent /\ res.status = 200 /\ res.body.skipped = "true")

C1_Witness ==
  /\ Admitted /\ LacksRequired
  /\ pc = "done" /\ res.body.skipped = "true" /\ calls = <<>>

UploadFailed == last.op = "SnUpload" /\ last.outcome \in {"no_id", "net_error"}

\* C2: when the upload fails (no document id, or a transport error) the
\* handler is finished, no Stripe and no ClickUp request has been issued,
\* and the response says success = false.
C2_UploadFailureStopsBilling ==
  UploadFailed =>
    /\ pc = "done"
    /\ ~HasCall("stripe") /\ ~HasCall("clickup")
    /\ res.sent /\ res.body.success = "false"

C2_Witness ==
  /\ last = [op |-> "SnUpload", outcome |-> "no_id"]
  /\ pc = "done" /\ res.body.success = "false"

\* the Stripe block ended in its catch after the e-signature chain succeeded
InvoiceThrew == loc.fieldsAdded /\ loc.stripeResult.error # Absent

InvoiceStepEntered == loc.stripeResult.kind # "null" \/ HasCall("stripe")
TaskAttempted == loc.clickupResult.kind # "null" \/ HasCall("clickup")

\* C3: when the e-signature chain succeeded and the invoice step threw, the
\* response has the document id and a signing link, stripe.error is set,
\* and the task creation was attempted.
C3_InvoiceThrowKeepsDocumentAndTask ==
  (pc = "done" /\ InvoiceThrew) =>
    /\ res.sent
    /\ res.body.document_id = loc.docId /\ loc.docId # Absent
    /\ res.body.signing_link # Absent
    /\ res.body.stripe.error # Absent
    /\ TaskAttempted

\* C4: once field placement succeeded, the response is sent only after both
\* the invoice step and the task step were attempted; it is a success
\* response whatever their outcome, and its stripe sub-result is the one the
\* invoice step produced.
C4_BothBestEffortStepsRun ==
  (pc = "done" /\ loc.fieldsAdded) =>
    /\ InvoiceStepEntered
    /\ TaskAttempted
    /\ res.sent /\ res.status = 200 /\ res.body.success = "true"
    /\ res.body.stripe = loc.stripeResult

FatalRequest ==
  [ SnAuthenticate |-> "POST /oauth2/token", SnUpload |-> "POST /document",
    SnAddFields |-> "PUT /document/{id}" ]

FatalFailed == last.op \in DOMAIN FatalRequest /\ last.outcome # "ok"

\* C5: when authentication, upload or field placement fails, the handler
\* stops there (the failed request is the last one issued) and the response
\* is success = false with an error and nothing else: no document_id, no
\* signing_link, no stripe and no clickup sub-result.
C5_FatalFailureReportsNothingElse ==
  FatalFailed =>
    /\ pc = "done"
    /\ calls[Len(calls)].op = FatalRequest[last.op]
    /\ res.sent /\ res.body.success = "false" /\ res.body.error # Absent
    /\ res.body.document_id = Absent /\ res.body.signing_link = Absent
    /\ res.body.stripe.kind = "missing" /\ res.body.clickup.kind = "missing"

C5_Witness ==
  /\ last = [op |-> "SnAddFields", outcome |-> "errors"]
  /\ loc.docId # Absent
  /\ pc = "done" /\ res.body.success = "false"

LinkFailed ==
  /\ last.op \in {"SnLinkRoles", "SnLinkInvite", "SnLinkUrl"}
  /\ last.outcome \notin {"client_role", "ok"}

UsesViewerUrl == loc.signingLink = ViewerUrl(loc.docId)

\* C6: when a step of the signing-link creation fails, the signing link is
\* the viewer URL of the uploaded document and the invoice step is entered;
\* the response of such an invocation is HTTP 200, success = true, with that
\* viewer URL as signing_link.
C6_SigningLinkFallsBack ==
  /\ LinkFailed => (UsesViewerUrl /\ InvoiceStepEntered /\ loc.docId # Absent)
  /\ (pc = "done" /\ UsesViewerUrl) =>
       /\ InvoiceStepEntered
       /\ res.sent /\ res.status = 200 /\ res.body.success = "true"
       /\ res.body.signing_link = ViewerUrl(loc.docId)

C6_Witness ==
  /\ last = [op |-> "SnLinkInvite", outcome |-> "no_invite_id"]
  /\ UsesViewerUrl /\ HasCall("stripe") /\ pc = "stripeCustomer"

\* a submission with a missing or malformed required field
ValidationError ==
  \/ ~req.has_body
  \/ \E i \in 1..Len(Required) : IsBlank(req.body[Required[i]])
  \/ ToNumber(StripCurrency(ToText(req.body.amount))).nan
  \/ ~EmailShape(Trim(ToText(req.body.client_email)))

\* C7: an admitted POST with a missing or malformed required field is
\* answered with HTTP 200 and a skip or error marker, never with a 5xx.
C7_ValidationErrorIs200 ==
  (Admitted /\ ValidationError /\ pc = "done") =>
    /\ res.sent /\ res.status = 200
    /\ (res.body.skipped = "true" \/ res.body.success = "false")

Mentions(clause) == \E i \in 1..Len(res.body.message) : res.body.message[i] = clause

\* C8: when a call of the Stripe chain or the ClickUp call failed, the
\* response is success = true with the document id, the sub-result of that
\* stage has an error, and the message does not say the stage succeeded.
C8_BestEffortFailureIsEmbedded ==
  (pc = "done" /\ loc.fieldsAdded) =>
    /\ ("stripe" \in loc.failed) =>
         /\ res.body.success = "true" /\ res.body.document_id = loc.docId
         /\ res.body.stripe.error # Absent
         /\ ~Mentions(", Stripe invoice created")
    /\ ("clickup" \in loc.failed) =>
         /\ res.body.success = "true" /\ res.body.document_id = loc.docId
         /\ res.body.clickup.error # Absent
         /\ ~Mentions(", ClickUp task created")

\* what the bridge returns when every Slack post succeeds
ExpectedReply ==
  IF sloc.errors # <<>> THEN ValidationBody(sloc.errors)
  ELSE IF sloc.received THEN sloc.result
  ELSE CallFailedBody

\* C9: whatever happens to the Slack posts, a POST to the bridge is answered
\* with HTTP 200 and the body it would have had if the posts had succeeded:
\* the validation errors, the pipeline's own result, or the call failure.
C9_NotificationFailureIsInvisible ==
  (sreq.present /\ sreq.method = "POST" /\ spc = "done") =>
    /\ sres.sent /\ sres.status = 200
    /\ sres.body = ExpectedReply

Phase2Alias(v) ==
  LET t == Trim(ToLowerCase(ToText(v))) IN t = T_phase2 \/ t = T_phase_2 \/ t = T_p2

\* C10: the pipeline normalizes "phase2", "Phase 2", "phase 2" and "p2"
\* (any case, surrounding whitespace ignored) to phase2 and every other
\* non-empty contract type to sprint1.
C10_ContractTypeAliases ==
  (loc.contractType # Absent) =>
    loc.contractType = IF Phase2Alias(req.body.contract_type) THEN "phase2" ELSE "sprint1"

\* a string of digits with optional currency sign and thousands separators
CurrencyAmount(v) ==
  /\ v.t = "string"
  /\ \E i \in 1..Len(v.s) : IsDigit(v.s[i])
  /\ \A i \in 1..Len(v.s) : IsDigit(v.s[i]) \/ v.s[i] \in {"$", ","}

\* the number such an amount denotes: the value of its digits
Denoted(v) == DigitsVal(SelectSeq(v.s, IsDigit))

\* C11: when the submitted amount is digits with optional "$" and ",", the
\* normalized amount is the number its digits denote, and the amount handed
\* to the renderer and returned in the success response is that number in
\* en-US grouping.
C11_AmountNormalized ==
  (loc.contractType # Absent /\ CurrencyAmount(req.body.amount)) =>
    /\ ToNumber(loc.amount) = Nat2Num(Denoted(req.body.amount))
    /\ loc.formattedAmount = GroupThousands(NatToText(Denoted(req.body.amount)))
    /\ (pc = "done" /\ res.body.success = "true") => res.body.amount = loc.formattedAmount

C11_Witness ==
  /\ req.body.amount = Str(T_usd5000)
  /\ ToNumber(loc.amount) = Nat2Num(5000)
  /\ pc = "done" /\ res.body.success = "true"
  /\ res.body.amount = <<"5", ",", "0", "0", "0">>

WrongMethod == req.present /\ req.method \notin {"POST", "OPTIONS"}

WrongKey ==
  req.present /\ req.method = "POST" /\ env.API_KEY /\ req.authorization # "match"

\* the invocation ended at a guard: nothing validated, rendered or requested
\* (pc = "lost": the request never arrived)
StoppedAtGuard(status) ==
  /\ pc \in {"start", "done", "lost"}
  /\ calls = <<>> /\ loc = InitLoc
  /\ pc = "done" =>
       /\ res.sent /\ res.status = status
       /\ res.body.skipped = Absent /\ res.body.success = Absent

\* C12: a request whose method is neither POST nor OPTIONS is answered 405;
\* with an API key configured a POST whose Authorization header is not
\* "Bearer <key>" is answered 401; in both cases nothing is validated,
\* rendered or requested.  Without a configured key nothing is answered 401.
C12_Guards ==
  /\ WrongMethod => StoppedAtGuard(405)
  /\ WrongKey => StoppedAtGuard(401)
  /\ ~env.API_KEY => ~(res.sent /\ res.status = 401)

C12_Witness ==
  /\ WrongKey /\ entry = "generate-and-send" /\ req.has_body
  /\ pc = "done" /\ res.status = 401 /\ calls = <<>>

\* a submission of the contract modal that the interaction handler accepts
Accepted == ireq.present /\ ireq.method = "POST" /\ ireq.payload = "submission"

\* C13: for an accepted modal submission, every outbound request of the
\* interaction handler (processing message, pipeline call, hand-off to the
\* bridge) is issued after the HTTP response to Slack was sent.
C13_RespondFirst ==
  Accepted => \A i \in 1..Len(icalls) : icalls[i].responded

ModalOpened ==
  \E i \in 1..Len(ccalls) : ccalls[i].op = "views.open" /\ ccalls[i].answer = "ok"

EphemeralErrors ==
  { "ephemeral: SLACK_BOT_TOKEN not configured", "ephemeral: No trigger_id received",
    "ephemeral: Error opening form", "ephemeral: Error: transport error" }

\* C14: every POST to the slash-command handler is answered with HTTP 200;
\* the body is empty exactly when views.open was called and returned ok,
\* and is an ephemeral error message otherwise; views.open is called at
\* most once, and never without a bot token or a trigger_id.
C14_SlashCommandAnswers ==
  (creq.present /\ creq.method = "POST") =>
    /\ Len(ccalls) <= 1
    /\ (~env.SLACK_BOT_TOKEN \/ ~creq.trigger_id) => ccalls = <<>>
    /\ cpc = "done" =>
         /\ cres.sent /\ cres.status = 200
         /\ (cres.body = "") <=> ModalOpened
         /\ cres.body # "" => cres.body \in EphemeralErrors

\* sub occurs in s as a contiguous run of characters
Occurs(sub, s) ==
  \E i \in 0..Len(s) :
    /\ i + Len(sub) <= Len(s)
    /\ \A j \in 1..Len(sub) : s[i + j] = sub[j]

CallsOf(svc, op) == {i \in 1..Len(calls) : calls[i].svc = svc /\ calls[i].op = op}

\* the reference submission, answered after every provider call succeeded
ReferenceSucceeded ==
  /\ Admitted /\ req.has_body
  /\ req.body = BodyOf(Reference("generate-and-send"))
  /\ pc = "done" /\ res.sent /\ res.body.success = "true"
  /\ loc.failed = {}
  /\ rev = "link" => ~UsesViewerUrl

OneTimeInvoiceFor(cents) ==
  /\ Cardinality(CallsOf("stripe", "POST /invoices")) = 1
  /\ Cardinality(CallsOf("stripe", "POST /invoiceitems")) = 1
  /\ \A i \in CallsOf("stripe", "POST /invoiceitems") : calls[i].num = Nat2Num(cents)
  /\ CallsOf("stripe", "POST /prices") = {}
  /\ CallsOf("stripe", "POST /subscriptions") = {}

OneTaskTitled(a, b) ==
  /\ Cardinality(CallsOf("clickup", "POST /list/{id}/task")) = 1
  /\ \A i \in CallsOf("clickup", "POST /list/{id}/task") :
       Occurs(a, calls[i].text) /\ Occurs(b, calls[i].text)

\* C15: the reference submission (sprint1, Acme Corp, 5000), when every
\* provider call succeeds, is answered with a document reference after
\* exactly one one-time invoice of 500000 cents and exactly one tracker
\* task whose title contains "Acme Corp" and "SPRINT1" were requested.
C15_ReferenceEndToEnd ==
  ReferenceSucceeded =>
    /\ res.status = 200
    /\ res.body.document_id # Absent
    /\ OneTimeInvoiceFor(500000)
    /\ OneTaskTitled(T_Acme, ToUpperCase(T_sprint1))

\* the request got past validation: the document is being rendered, or an
\* external request has already followed the rendering
Rendered == pc = "generateContract" \/ calls # <<>>

\* the invariant of a ContractRequest, on the body the pipeline received
WellFormedRequest ==
  /\ \A i \in 1..Len(Required) : ~IsBlank(req.body[Required[i]])
  /\ EmailShape(Trim(ToText(req.body.client_email)))
  /\ LET n == ToNumber(StripCurrency(ToText(req.body.amount))) IN Positive(n)

\* C16: every request that reaches the rendering of the document has all
\* required fields non-empty after trimming, a client email of the shape
\* local@domain.tld and an amount that parses to a positive number, whether
\* it arrived at /api/generate-and-send directly or through /api/slack-contract.
C16_ContractRequestInvariant == Rendered => WellFormedRequest

InviteIssued ==
  \/ pc = "snSendInvite"
  \/ CallsOf("signnow", "POST /document/{id}/invite") # {}

\* the handler is past the invite decision: fields are placed and, in the
\* signing-link revision, the signing link is settled one way or the other
InviteDecided ==
  /\ loc.fieldsAdded
  /\ pc \notin {"snAddFields", "snLinkRoles", "snLinkInvite", "snLinkUrl"}

StripeOps ==
  LET s == SelectSeq(calls, LAMBDA k : k.svc = "stripe") IN [i \in 1..Len(s) |-> s[i].op]

RecurringChain ==
  <<"POST /customers", "POST /prices", "POST /subscriptions", "GET /invoices/{id}">>

OneTimeChain ==
  <<"POST /customers", "POST /invoices", "POST /invoiceitems", "POST /invoices/{id}/finalize">>

StartsWith(chain, ops) ==
  /\ Len(ops) <= Len(chain)
  /\ \A i \in 1..Len(ops) : ops[i] = chain[i]

\* C18: the Stripe requests of an invocation are the beginning of the
\* recurring chain (customer, price, subscription, first invoice) when the
\* normalized contract type is phase2 and of the one-time chain (customer,
\* draft invoice, line item, finalize) when it is sprint1; the price and the
\* line item carry the full amount in cents.
C18_BillingModeFollowsVariant ==
  HasCall("stripe") =>
    /\ loc.contractType = "phase2" => StartsWith(RecurringChain, StripeOps)
    /\ loc.contractType = "sprint1" => StartsWith(OneTimeChain, StripeOps)
    /\ loc.contractType \in {"phase2", "sprint1"}
    /\ \A i \in CallsOf("stripe", "POST /invoiceitems") \cup CallsOf("stripe", "POST /prices") :
         calls[i].num = loc.amountCents

\* the requests sent to SignNow so far, in the order they were sent
SignNowOps ==
  LET s == SelectSeq(calls, LAMBDA k : k.svc = "signnow") IN [i \in 1..Len(s) |-> s[i].op]

\* authenticate, upload, metadata, field placement, and the three requests
\* of the signing link, which only the signing-link revision creates
SignNowChain ==
  <<"POST /oauth2/token", "POST /document", "GET /document/{id}", "PUT /document/{id}">>
    \o (IF rev = "link"
        THEN <<"GET /document/{id}", "POST /v2/documents/{id}/embedded-invites",
               "POST /v2/documents/{id}/embedded-invites/{invite}/link">>
        ELSE <<>>)

\* position in calls of the field placement, 0 when it was not requested
FieldPlacementAt ==
  LET at == CallsOf("signnow", "PUT /document/{id}") IN
    IF at = {} THEN 0 ELSE CHOOSE i \in at : TRUE

AwaitedOp ==
  [ snAuthenticate      |-> "POST /oauth2/token",
    snUpload            |-> "POST /document",
    snGetDocInfo        |-> "GET /document/{id}",
    snAddFields         |-> "PUT /document/{id}",
    snLinkRoles         |-> "GET /document/{id}",
    snLinkInvite        |-> "POST /v2/documents/{id}/embedded-invites",
    snLinkUrl           |-> "POST /v2/documents/{id}/embedded-invites/{invite}/link",
    stripeCustomer      |-> "POST /customers",
    stripePrice         |-> "POST /prices",
    stripeSubscription  |-> "POST /subscriptions",
    stripeLatestInvoice |-> "GET /invoices/{id}",
    stripeInvoice       |-> "POST /invoices",
    stripeInvoiceItem   |-> "POST /invoiceitems",
    stripeFinalize      |-> "POST /invoices/{id}/finalize",
    clickupTask         |-> "POST /list/{id}/task" ]

\* the only request that can be unanswered is the last one sent, and it is
\* the one the handler is suspended on
OneOutstanding ==
  pc \in DOMAIN AwaitedOp => (calls # <<>> /\ calls[Len(calls)].op = AwaitedOp[pc])

\* C20: the handler waits for each request before it sends the next; the
\* task request is sent after the invoice step has left its result (a
\* result or an error) and after every Stripe request, and it carries the
\* invoice URL of that result, which is absent exactly when the invoice step
\* produced none.
C20_SequentialCalls ==
  /\ OneOutstanding
  /\ \A i \in CallsOf("clickup", "POST /list/{id}/task") :
       /\ loc.stripeResult.kind # "null"
       /\ \A j \in 1..Len(calls) : calls[j].svc = "stripe" => j < i
       /\ calls[i].ref = loc.stripeResult.invoiceUrl
       /\ calls[i].ref # Absent <=>
            (StripeOps = OneTimeChain /\ loc.stripeResult.error = Absent
               /\ loc.stripeResult.invoiceUrl = "https://stripe/invoice")

\* a task request that carries the URL of the finalized invoice
C20_Witness ==
  /\ pc = "clickupTask" /\ StripeOps = OneTimeChain
  /\ calls[Len(calls)].svc = "clickup"
  /\ calls[Len(calls)].ref = "https://stripe/invoice"

\* the interaction handler on its own: one callback arrives at /api/slack-interact
InteractInit == Init /\ entry = "slack-interact"

InteractNext ==
  \/ InteractEntry
  \/ InteractProcessing
  \/ InteractHandoff
  \/ InteractPipeline
  \/ InteractResults
  \/ InteractDM
  \/ InteractCrashPost

\* every request that is outstanding is settled one way or another, and a
\* continuation that is ready runs: the event loop starves no handler
InteractSpec == InteractInit /\ [][InteractNext]_vars /\ WF_vars(InteractNext)

\* the variants that hand the submission off without awaiting the answer
HandsOff == variant \in {"fire", "handoff"}

HandoffCalls ==
  {i \in 1..Len(icalls) : icalls[i].op = "POST /api/slack-contract"}

\* C21: for an accepted modal submission the adapter requests
\* /api/slack-contract at most once and never reads the answer, and it
\* eventually responds to Slack, whatever becomes of the hand-off request.
C21_FireAndForget ==
  /\ []((Accepted /\ HandsOff) =>
          (Cardinality(HandoffCalls) <= 1 /\ iloc.answer = "none"))
  /\ (Accepted /\ HandsOff) ~> ires.sent

\* ops of the requests of a call log that went to one provider
OpsOf(log, svc) ==
  LET s == SelectSeq(log, LAMBDA k : k.svc = svc) IN [i \in 1..Len(s) |-> s[i].op]

\* what the signing-link revision computes from each of them, and the
\* document id the provider returns to each
PairExpected ==
  [w \in {1, 2} |->
     LET r == PairRequest[w]
         amount == StripCurrency(ToText(r.body.amount))
     IN [ type      |-> NormalizeType("link", r.body.contract_type),
          amount    |-> amount,
          cents     |-> AmountCents(amount),
          formatted |-> ToLocaleString(ToNumber(amount)),
          name      |-> ToText(r.body.client_first) \o <<" ">> \o ToText(r.body.client_last),
          company   |-> ToText(r.body.client_company),
          docId     |-> IF w = 1 THEN "doc-1" ELSE "doc-2",
          chain     |-> IF NormalizeType("link", r.body.contract_type) = "phase2"
                        THEN RecurringChain ELSE OneTimeChain ]]

\* everything invocation w holds (request r, locals l, call log, response
\* out) is its own request and what the handler computes from it
OwnRun(w, r, l, log, out) ==
  LET x == PairExpected[w] IN
    /\ r = PairRequest[w]
    /\ l.contractType \in {Absent, x.type}
    /\ l.amount \in {<<>>, x.amount}
    /\ l.clientName \in {<<>>, x.name}
    /\ l.docId \in {Absent, x.docId}
    /\ l.signingLink \in {Absent, "https://signnow/embedded-link", ViewerUrl(x.docId)}
    /\ l.amountCents \in {NaN, x.cents}
    /\ StartsWith(SignNowChain, OpsOf(log, "signnow"))
    /\ StartsWith(x.chain, OpsOf(log, "stripe"))
    /\ \A i \in 1..Len(log) :
         log[i].op \in {"POST /prices", "POST /invoiceitems"} => log[i].num = x.cents
    /\ (out.sent /\ out.body.success = "true") =>
         /\ out.body.document_id = x.docId
         /\ out.body.contract_type = x.type
         /\ out.body.client = x.name
         /\ out.body.company = x.company
         /\ out.body.amount = x.formatted
         /\ out.body.signing_link \in {"https://signnow/embedded-link", ViewerUrl(x.docId)}

\* C22: of two pipeline invocations whose steps interleave, each one, the
\* running and the suspended, has the external requests and the response
\* of its own request: its variant, amount, client, document id and
\* result fields never come from the other.
C22_InvocationsIndependent ==
  other.who # 0 =>
    /\ OwnRun(Me, req, loc, calls, res)
    /\ OwnRun(other.who, other.req, other.loc, other.calls, other.res)

\* the second invocation has answered with its document while the first
\* one, started before it, still waits for its upload
C22_Witness ==
  /\ other.who = 1 /\ other.pc = "snUpload"
  /\ pc = "done" /\ res.body.success = "true" /\ res.body.document_id = "doc-2"
  /\ loc.contractType = "phase2" /\ other.loc.contractType = "sprint1"

\* a POST to the interaction handler that is not a submission of the
\* contract modal: no payload, an unparsable one, another type, no view or
\* another callback_id
Foreign == ireq.present /\ ireq.method = "POST" /\ ireq.payload # "submission"

\* C23: a POST that is not a submission of the contract modal is answered
\* with an empty HTTP 200 and causes no outbound request.
C23_ForeignPayloadIgnored ==
  Foreign =>
    /\ icalls = <<>>
    /\ ipc = "done" => (ires.sent /\ ires.status = 200 /\ ires.body = "")

\* the rules a submission to /api/slack-contract violates, as the entries
\* the errors list should have
ViolatedRules(body) ==
  {<<"missing", SlackRequired[i]>> : i \in {j \in 1..Len(SlackRequired) : IsBlank(body[SlackRequired[j]])}}
    \cup (IF ~IsBlank(body.client_email) /\ ~EmailShape(Trim(ToText(body.client_email)))
          THEN {<<"invalid", "client_email">>} ELSE {})
    \cup (IF ~IsBlank(body.amount)
             /\ LET n == ToNumber(StripCurrencySpace(ToText(body.amount))) IN ~Positive(n)
          THEN {<<"invalid", "amount">>} ELSE {})
    \cup (IF ~IsBlank(body.contract_type) /\ normalizeContractType(body.contract_type) = Absent
          THEN {<<"invalid", "contract_type">>} ELSE {})

BridgeCalledPipeline ==
  req.present \/ \E i \in 1..Len(scalls) : scalls[i].svc = "pipeline"

\* C24: a POST to /api/slack-contract that violates a validation rule never
\* makes the bridge call the pipeline, and is answered with HTTP 200,
\* success = false and an errors list with exactly one entry for every
\* violated rule.
C24_BridgeValidatesFirst ==
  (sreq.present /\ sreq.method = "POST" /\ ViolatedRules(sreq.body) # {}) =>
    /\ ~BridgeCalledPipeline
    /\ spc = "done" =>
         /\ sres.sent /\ sres.status = 200 /\ sres.body.success = "false"
         /\ {sres.body.errors[i] : i \in 1..Len(sres.body.errors)} = ViolatedRules(sreq.body)
         /\ Len(sres.body.errors) = Cardinality(ViolatedRules(sreq.body))

\* a handler that has come to its end, or that can never go on, has responded
NoSilentEnd ==
  /\ pc = "done" => res.sent
  /\ spc = "done" => sres.sent
  /\ ipc \in {"done", "stalled"} => ires.sent
  /\ cpc = "done" => cres.sent

\* a response that was sent is never replaced by another one
SentOnce ==
  /\ res.sent => res' = res
  /\ sres.sent => sres' = sres
  /\ ires.sent => ires' = ires
  /\ cres.sent => cres' = cres

\* C25: every invocation of the pipeline, slack-contract, slash-command and
\* interaction handlers sends exactly one HTTP response: none ends without
\* one, and none sends a second one, also when work goes on after the
\* response and fails.
C25_ExactlyOneResponse == []NoSilentEnd /\ [][SentOnce]_vars

\* C26: a pipeline response with success = true carries the document id
\* that the upload of this invocation returned and, in the signing-link
\* revision, a signing link, and is sent only after field placement
\* succeeded; a response with success = false or skipped = true carries no
\* document id.
C26_ResultConsistent ==
  (pc = "done" /\ res.sent) =>
    /\ res.body.success = "true" =>
         /\ res.body.document_id # Absent
         /\ res.body.document_id = loc.docId
         /\ loc.docId \in DocIds
         /\ \E i \in CallsOf("signnow", "POST /document") : i < FieldPlacementAt
         /\ loc.fieldsAdded
         /\ rev = "link" => res.body.signing_link # Absent
    /\ (res.body.success = "false" \/ res.body.skipped = "true") =>
         res.body.document_id = Absent

\* a success of the signing-link revision with its document and its link
C26_Witness ==
  /\ pc = "done" /\ rev = "link" /\ res.status = 200
  /\ res.body.success = "true" /\ res.body.document_id = "doc-1"
  /\ res.body.signing_link = "https://signnow/embedded-link"
  /\ loc.fieldsAdded

\* C27: the page_number sent with the signature field and the date field is
\* the page count computed from the metadata minus one, and it is a valid
\* zero-based page index, whatever the metadata response holds.
C27_LastPageIndex ==
  \A i \in CallsOf("signnow", "PUT /document/{id}") :
    /\ calls[i].num = Nat2Num(loc.pageCount - 1)
    /\ calls[i].num.val >= 0

\* the option selected in the modal, Absent when it is neither option
Selected ==
  IF ireq.values.contract_type = Str(T_sprint1) THEN "sprint1"
  ELSE IF ireq.values.contract_type = Str(T_phase2) THEN "phase2"
  ELSE Absent

\* the adapter has handed the submission to /api/slack-contract
Forwarded ==
  /\ entry = "slack-interact"
  /\ \E i \in 1..Len(icalls) : icalls[i].op = "POST /api/slack-contract"

\* the variant revision r of /api/generate-and-send derives from the body
\* the adapter forwarded, Absent when /api/slack-contract rejects that body
DownstreamVariant(r) ==
  IF validateFields(iloc.formData) # <<>> THEN Absent
  ELSE NormalizeType(r, PipelineBody(iloc.formData).contract_type)

\* C28: a submission whose selection is sprint1 or phase2 is rendered and
\* billed as that variant after the adapter, /api/slack-contract and
\* /api/generate-and-send, and a submission without a selection never
\* becomes a phase2 contract.
C28_VariantPreserved ==
  /\ Forwarded =>
       \A r \in Revisions :
         /\ Selected # Absent => DownstreamVariant(r) \in {Absent, Selected}
         /\ ~Truthy(ireq.values.contract_type) => DownstreamVariant(r) # "phase2"
  /\ (entry = "slack-contract" /\ loc.contractType # Absent) =>
       loc.contractType = normalizeContractType(sreq.body.contract_type)

\* C29: with an inbound API key configured, a submission that reaches the
\* pipeline through /api/slack-contract or through the in-process variant
\* of /api/slack-interact carries no Authorization header and is answered
\* 401 before any provider request; the adapter then reports an error and
\* never a success.
C29_AdaptersUnauthorized ==
  env.API_KEY =>
    /\ req.present => req.authorization = "none"
    /\ calls = <<>>
    /\ pc = "done" => (res.sent /\ res.status = 401 /\ res.body.error = "Unauthorized")
    /\ \A i \in 1..Len(scalls) : scalls[i].op # "chat.postMessage: new contract"
    /\ (sloc.received /\ env.SLACK_BOT_TOKEN) =>
         \E i \in 1..Len(scalls) : scalls[i].op = "chat.postMessage: pipeline error"
    /\ (spc = "done" /\ sres.sent) => sres.body.success # "true"
    /\ iloc.answer # "success"
    /\ (iloc.answer = "failure" /\ env.SLACK_BOT_TOKEN) =>
         \E i \in 1..Len(icalls) : icalls[i].op = "chat.postMessage: results"

\* the bridge has posted the pipeline error after a 401 of the pipeline
C29_Witness ==
  /\ entry = "slack-contract" /\ env.API_KEY
  /\ pc = "done" /\ res.status = 401 /\ calls = <<>>
  /\ spc = "done" /\ sres.sent /\ sres.status = 200
  /\ \E i \in 1..Len(scalls) : scalls[i].op = "chat.postMessage: pipeline error"

\* the number the rendered document shows: formattedAmount without its grouping
ShownAmount == ToNumber(StripCurrency(loc.formattedAmount))

\* the requests that carry amountCents, and the one that carries the task amount
ChargeCalls == CallsOf("stripe", "POST /invoiceitems") \cup CallsOf("stripe", "POST /prices")
TaskCalls == CallsOf("clickup", "POST /list/{id}/task")

\* C30: once the required fields are present, the amount in the rendered
\* document, the amount charged (amountCents / 100) and the amount in the
\* tracker task are the same number, and amountCents is a positive integer,
\* 100 times the normalized amount.
C30_AmountConsistent ==
  loc.contractType # Absent =>
    /\ \A i \in ChargeCalls :
         /\ Positive(calls[i].num) /\ calls[i].num.frac = 0
         /\ ~ToNumber(loc.amount).nan
         /\ calls[i].num.val = 100 * ToNumber(loc.amount).val + ToNumber(loc.amount).frac
         /\ ~ShownAmount.nan
         /\ calls[i].num.val = 100 * ShownAmount.val + ShownAmount.frac
    /\ \A i \in TaskCalls : calls[i].num = ShownAmount

====
